---- MODULE Spec2Model ----
(***************************************************************************)
(* A model of stoicjit/market_scanner: the level store and its filter      *)
(* (level_filter.py), the level-inserting calls of the cron jobs           *)
(* (db_manager.py, market_scanner/insert_*.py, fill_database.py) and the   *)
(* fakeout detector (fakeout_detector.py).                                 *)
(*                                                                         *)
(* Prices are DOUBLE PRECISION in the code and are only ever compared, so  *)
(* they are modelled by integers.  A timestamp is the index of the closed  *)
(* candle in the exchange's series of one (symbol, timeframe).             *)
(***************************************************************************)
EXTENDS Integers, Sequences, FiniteSets, TLC

\* Bounds of the model.
MaxVal == 3       \* distinct highs (and lows) the bucket candles take
MaxCandles == 3   \* closed bucket candles the exchange serves
MaxRows == 3      \* rows ever inserted into one levels table
MaxBackfill == 2  \* bucket candles already backfilled when the detector starts

\* Bucket candles are centred on Mid: the highs lie above it, the lows below.
Mid == MaxVal + 1
Prices == 1..(2 * MaxVal + 1)

\* One tracked symbol, one bucket and one lower timeframe; the code's lists
\* hold seven symbols, three buckets and three checked timeframes, all
\* treated alike.
Symbols == {"btcusdt"}
Buckets == {"daily"}
LevelTypes == {"high", "low"}
Detectors == {"d1", "d2"}

VARIABLES
  exchange,     \* [symbol, bucket] -> the closed candles the exchange serves
  high_levels,  \* table "high_levels": rows [id, symbol, timeframe, level, timestamp]
  low_levels,   \* table "low_levels"
  next_id,      \* level_type -> next value of the table's SERIAL id
  last,         \* the last handler run and what its filter calls read and returned
  ins,          \* history of the level inserts into the modelled bucket
  ohlcv,        \* [symbol, timeframe] -> rows of table "<symbol>_<timeframe>"
  det,          \* detector run -> its position and what it has read so far
  batch,        \* the check_all_symbols pass under way
  flt           \* filter process -> its position between its read and its delete

vars == <<exchange, high_levels, low_levels, next_id, last, ins, ohlcv, det,
          batch, flt>>

----------------------------------------------------------------------------
\* Helpers

Max(S) == CHOOSE x \in S : \A y \in S : y <= x
Min(S) == CHOOSE x \in S : \A y \in S : x <= y

Reverse(s) == [i \in 1..Len(s) |-> s[Len(s) + 1 - i]]

RECURSIVE SeqToSet(_)
SeqToSet(s) == IF s = <<>> THEN {} ELSE {Head(s)} \cup SeqToSet(Tail(s))

\* WHERE symbol = %s AND timeframe = %s
RowsOf(table, symbol, timeframe) ==
  {r \in table : r.symbol = symbol /\ r.timeframe = timeframe}

\* ORDER BY timestamp ASC: every order of the rows that is ascending by
\* timestamp; SQL leaves the order of rows with equal timestamps open.
RECURSIVE OrderByTimestamp(_)
OrderByTimestamp(S) ==
  IF S = {} THEN {<<>>}
  ELSE LET m == Min({r.timestamp : r \in S})
       IN UNION {{<<r>> \o s : s \in OrderByTimestamp(S \ {r})} :
                 r \in {x \in S : x.timestamp = m}}

\* LevelFilter.get_levels: the (id, level, timestamp) rows of one key, in
\* each order the query may return them.
LevelFilter_get_levels(table, symbol, timeframe) ==
  OrderByTimestamp(RowsOf(table, symbol, timeframe))

----------------------------------------------------------------------------
\* level_filter.py: the reduction of filter_highs and filter_lows

\* Mutant of HigherThanMax: an older high equal to the running maximum is kept.
HigherOrEqualMax(level, max_kept) == level >= max_kept

\* filter_highs line 101: if level > max_kept
HigherThanMax(level, max_kept) == level > max_kept

\* Mutant of LowerThanMin: an older low equal to the running minimum is kept.
LowerOrEqualMin(level, min_kept) == level <= min_kept

\* filter_lows line 160: if level < min_kept
LowerThanMin(level, min_kept) == level < min_kept

\* The loop over levels_reversed[1:] of filter_highs.
RECURSIVE KeepHighsLoop(_, _, _)
KeepHighsLoop(rest, max_kept, keep_ids) ==
  IF rest = <<>> THEN keep_ids
  ELSE LET l == Head(rest)
       IN IF HigherThanMax(l.level, max_kept)
          THEN KeepHighsLoop(Tail(rest), l.level, Append(keep_ids, l.id))
          ELSE KeepHighsLoop(Tail(rest), max_kept, keep_ids)

\* The loop over levels_reversed[1:] of filter_lows.
RECURSIVE KeepLowsLoop(_, _, _)
KeepLowsLoop(rest, min_kept, keep_ids) ==
  IF rest = <<>> THEN keep_ids
  ELSE LET l == Head(rest)
       IN IF LowerThanMin(l.level, min_kept)
          THEN KeepLowsLoop(Tail(rest), l.level, Append(keep_ids, l.id))
          ELSE KeepLowsLoop(Tail(rest), min_kept, keep_ids)

\* Mutant of HighKeepIds: the list is walked without reversed(), so the
\* oldest level is the one always kept.
HighKeepIdsFromOldest(levels) ==
  KeepHighsLoop(Tail(levels), levels[1].level, <<levels[1].id>>)

\* keep_ids of filter_highs for a non-empty list read by get_levels.
HighKeepIds(levels) ==
  LET levels_reversed == Reverse(levels)
      most_recent == levels_reversed[1]
  IN KeepHighsLoop(Tail(levels_reversed), most_recent.level, <<most_recent.id>>)

\* Mutant of LowKeepIds: the list is walked without reversed(), so the oldest
\* level is the one always kept.
LowKeepIdsFromOldest(levels) ==
  KeepLowsLoop(Tail(levels), levels[1].level, <<levels[1].id>>)

\* keep_ids of filter_lows for a non-empty list read by get_levels.
LowKeepIds(levels) ==
  LET levels_reversed == Reverse(levels)
      most_recent == levels_reversed[1]
  IN KeepLowsLoop(Tail(levels_reversed), most_recent.level, <<most_recent.id>>)

KeepIds(levels, level_type) ==
  IF level_type = "high" THEN HighKeepIds(levels) ELSE LowKeepIds(levels)

\* Mutant of ShouldDelete: the DELETE runs whenever the key has levels.
ShouldDeleteAlways(deleted_count) == deleted_count >= 0

\* Mutant of ShouldDelete: a single level to delete is left in the table.
ShouldDeleteSeveral(deleted_count) == deleted_count > 1

\* filter_highs line 112 / filter_lows line 171: if deleted_count > 0
ShouldDelete(deleted_count) == deleted_count > 0

\* Mutant of DeleteExcept: id IN %s, the kept levels are the ones deleted.
DeleteListed(table, symbol, timeframe, keep_ids) ==
  {r \in table : ~(r.symbol = symbol /\ r.timeframe = timeframe
                   /\ r.id \in SeqToSet(keep_ids))}

\* Mutant of DeleteExcept: WHERE id NOT IN %s alone, whatever the key.
DeleteExceptAnyKey(table, symbol, timeframe, keep_ids) ==
  {r \in table : r.id \in SeqToSet(keep_ids)}

\* DELETE FROM <table> WHERE symbol = %s AND timeframe = %s AND id NOT IN %s
DeleteExcept(table, symbol, timeframe, keep_ids) ==
  {r \in table : ~(r.symbol = symbol /\ r.timeframe = timeframe
                   /\ r.id \notin SeqToSet(keep_ids))}

\* What one filter_highs / filter_lows call does to its table and returns,
\* when get_levels returned `levels`; `executed` tells whether the DELETE of
\* lines 113-117 / 172-176 ran.
FilterResult(table, symbol, timeframe, level_type, levels) ==
  IF levels = <<>>
  THEN [table |-> table, keep_ids |-> <<>>, ret |-> <<0, 0>>, executed |-> FALSE]
  ELSE LET keep_ids == KeepIds(levels, level_type)
           kept_count == Len(keep_ids)
           deleted_count == Len(levels) - kept_count
       IN [table |-> IF ShouldDelete(deleted_count)
                     THEN DeleteExcept(table, symbol, timeframe, keep_ids)
                     ELSE table,
           keep_ids |-> keep_ids,
           ret |-> <<kept_count, deleted_count>>,
           executed |-> ShouldDelete(deleted_count)]

----------------------------------------------------------------------------
\* fakeout_detector.py

\* Mutant of FakeoutDetector_get_levels: ORDER BY level DESC.
RECURSIVE OrderByLevelDesc(_)
OrderByLevelDesc(S) ==
  IF S = {} THEN <<>>
  ELSE LET r == CHOOSE x \in S : \A y \in S : x.level >= y.level
       IN <<r.level>> \o OrderByLevelDesc(S \ {r})

get_levels_descending(table, symbol, timeframe) ==
  OrderByLevelDesc(RowsOf(table, symbol, timeframe))

\* FakeoutDetector.get_levels: SELECT level ... ORDER BY level, the values
\* of one key in ascending order.
RECURSIVE OrderByLevel(_)
OrderByLevel(S) ==
  IF S = {} THEN <<>>
  ELSE LET r == CHOOSE x \in S : \A y \in S : x.level <= y.level
       IN <<r.level>> \o OrderByLevel(S \ {r})

FakeoutDetector_get_levels(table, symbol, timeframe) ==
  OrderByLevel(RowsOf(table, symbol, timeframe))

\* FakeoutDetector.get_latest_candle: ORDER BY timestamp DESC LIMIT 1;
\* the result is the set holding the row, or the empty set for None.
get_latest_candle(table) ==
  {r \in table : \A o \in table : o.timestamp <= r.timestamp}

\* Mutant of HighFakeout: a high equal to the level counts as a wick through it.
HighFakeoutOrEqual(high, close, level) == high >= level /\ close < level

\* check_fakeout line 125: if high > level and close < level
HighFakeout(high, close, level) == high > level /\ close < level

\* check_fakeout line 132: if low < level and close > level
LowFakeout(low, close, level) == low < level /\ close > level

None == <<>>

\* Mutant of check_fakeout: only the first level of the list is compared.
check_fakeout_first(candle, levels, level_type) ==
  IF levels = <<>> \/ level_type \notin LevelTypes THEN None
  ELSE IF level_type = "high"
       THEN IF HighFakeout(candle.high, candle.close, Head(levels))
            THEN <<"high", Head(levels)>> ELSE None
       ELSE IF LowFakeout(candle.low, candle.close, Head(levels))
            THEN <<"low", Head(levels)>> ELSE None

\* check_fakeout: the first level of the list that the candle fakes out.
RECURSIVE check_fakeout(_, _, _)
check_fakeout(candle, levels, level_type) ==
  IF levels = <<>> \/ level_type \notin LevelTypes THEN None
  ELSE IF level_type = "high"
       THEN IF HighFakeout(candle.high, candle.close, Head(levels))
            THEN <<"high", Head(levels)>>
            ELSE check_fakeout(candle, Tail(levels), level_type)
       ELSE IF LowFakeout(candle.low, candle.close, Head(levels))
            THEN <<"low", Head(levels)>>
            ELSE check_fakeout(candle, Tail(levels), level_type)

\* Mutant of CheckResult: the low levels are checked first.
CheckLowsFirst(candle, highs, lows) ==
  IF check_fakeout(candle, lows, "low") # None
  THEN check_fakeout(candle, lows, "low")
  ELSE check_fakeout(candle, highs, "high")

\* check_hourly_fakeouts lines 196-208: the high levels are checked first,
\* the low levels only when no high level matched.
CheckResult(candle, highs, lows) ==
  IF check_fakeout(candle, highs, "high") # None
  THEN check_fakeout(candle, highs, "high")
  ELSE check_fakeout(candle, lows, "low")

\* Mutant of AlreadyMarked: the is_fakeout check is left out.
NeverMarked(candle) == FALSE

\* check_hourly_fakeouts line 186: if candle['is_fakeout']
AlreadyMarked(candle) == candle.is_fakeout

\* mark_fakeout: UPDATE ... SET is_fakeout = TRUE, fakeout_type, fakeout_level
\* WHERE timestamp = %s, committed.
mark_fakeout(table, timestamp, fakeout_type, fakeout_level) ==
  {IF r.timestamp = timestamp
   THEN [r EXCEPT !.is_fakeout = TRUE, !.fakeout_type = fakeout_type,
                  !.fakeout_level = fakeout_level]
   ELSE r : r \in table}

\* The bucket whose levels a lower timeframe is checked against.
BucketOf(timeframe) ==
  CASE timeframe = "1h" -> "daily"
    [] timeframe = "4h" -> "weekly"
    [] timeframe = "1d" -> "monthly"

LowerTimeframes == {"1h"}

\* The candle table of a bucket: insert_daily.py line 58 writes '1d',
\* insert_weekly.py line 57 '1w', insert_monthly.py line 57 '1M'
\* (timeframe_map of fill_database.py, lines 36-40, read backwards).
CandleTable(bucket) ==
  CASE bucket = "daily" -> "1d"
    [] bucket = "weekly" -> "1w"
    [] bucket = "monthly" -> "1M"

\* The candle tables the store holds for a symbol.
CandleTables == LowerTimeframes \cup {CandleTable(b) : b \in Buckets}

NoCandle == [timestamp |-> 0, high |-> 0, low |-> 0, close |-> 0, is_fakeout |-> FALSE]

\* A detector run: where it stands, what it read, how it ended (outcome), the
\* level of the log record it wrote about the outcome, what it returned
\* (ret; raised when it ended by an exception instead), and the calls it
\* made to TelegramNotifier.send_fakeout_alert.
Idle == [pc |-> "idle", symbol |-> "", timeframe |-> "", candle |-> NoCandle,
         high_levels |-> <<>>, low_levels |-> <<>>,
         outcome |-> "", log |-> "", ret |-> FALSE, raised |-> FALSE,
         result |-> None, alerts |-> <<>>]

\* Mutant of LogLevel: every outcome is logged with logger.info.
LogLevelInfo(outcome) == "info"

\* The level of the last log record of a run of check_hourly_fakeouts:
\* logger.warning for no candle (line 182); logger.error for a failed UPDATE
\* that mark_fakeout rolled back (line 167); logger.info otherwise (lines
\* 163, 187, 210).  When the connection is lost under the UPDATE, the
\* rollback of line 166 raises before line 167, and when a SELECT raises
\* nothing is logged after it: the last record is then the logger.info of
\* line 126 / 133 or of line 177 / 194.
LogLevel(outcome) ==
  CASE outcome = "no_data" -> "warning"
    [] outcome = "error" -> "error"
    [] OTHER -> "info"

\* Mutant of ReturnValue: only the run that found no candle returns False.
ReturnsTrueUnlessNoData(outcome) == outcome # "no_data"

\* What check_hourly_fakeouts returns: True after mark_fakeout (lines 201,
\* 208), False at lines 183, 188 and 211.
ReturnValue(outcome) == outcome = "marked"

\* The outcomes in which an exception leaves check_hourly_fakeouts: the
\* UPDATE or its commit failed and was rolled back ("error"), the connection
\* was lost under it and the rollback raised too ("connection_lost"), or a
\* SELECT of get_latest_candle / get_levels raised ("read_error").
Raising == {"error", "connection_lost", "read_error"}

\* A run ends with `outcome`; an exception leaves no return value.
Ended(run, outcome) ==
  [run EXCEPT !.pc = "done", !.outcome = outcome, !.log = LogLevel(outcome),
              !.ret = ReturnValue(outcome), !.raised = (outcome \in Raising)]

\* A candle job that has not begun: the loop of insert_daily_candles or
\* insert_4h_candles over the symbols, its counters, and the timeframe it
\* passes to check_all_symbols when the loop has ended (check).
NoJobPass == [pc |-> "idle", timeframe |-> "", todo |-> <<>>, success |-> 0,
              failed |-> 0, checked |-> <<>>, check |-> "none"]

\* No check_all_symbols pass is under way, and no candle job that would
\* call it (job).
NoBatch == [pc |-> "idle", timeframe |-> "", todo |-> <<>>, fakeouts_found |-> 0,
            checked |-> <<>>, error |-> "", job |-> NoJobPass]

Filterers == {"f1", "f2"}

\* A filter_highs / filter_lows call that was not made.
NoCall == [called |-> FALSE, levels |-> <<>>, keep_ids |-> <<>>, ret |-> <<0, 0>>,
           executed |-> FALSE, before |-> {}]

\* A process that is not running a handler.  While it runs one (op) for a
\* key, pc is the statement it is about to send to the store: the processes
\* commit after every statement, and between two statements of one process
\* the others act.  tss are the timestamps of the candles it fetched;
\* level_type, levels, keep_ids, ret and before belong to the filter_highs /
\* filter_lows call under way, high and low to the calls already returned;
\* conn is the state of the connection of its LevelFilter and pending the
\* rows its open transaction has deleted and not committed; error and
\* raised_at tell what ended a run that failed, and at which statement of
\* a filter call.
NoFilter == [pc |-> "idle", op |-> "", symbol |-> "", timeframe |-> "",
             tss |-> <<>>, level_type |-> "", levels |-> <<>>, keep_ids |-> <<>>,
             ret |-> <<0, 0>>, before |-> {}, high |-> NoCall, low |-> NoCall,
             conn |-> "usable", pending |-> {}, error |-> "", raised_at |-> ""]

----------------------------------------------------------------------------
\* State after construction: empty tables, nothing closed on the exchange.

NoRows == [t \in LevelTypes |-> {}]

\* `last` describes the last handler run that ended: what it was, the
\* candles it fetched (record), what its filter calls returned and the
\* levels of its key when it ended (rows).
NoOp == [op |-> "none", symbol |-> "", timeframe |-> "",
         high |-> <<0, 0>>, low |-> <<0, 0>>, record |-> <<>>, rows |-> NoRows]

\* No level was inserted yet.
NoInserts == [t \in LevelTypes |-> [tss |-> {}, ordered |-> TRUE]]

Init ==
  /\ exchange = [s \in Symbols, b \in Buckets |-> <<>>]
  /\ high_levels = {}
  /\ low_levels = {}
  /\ next_id = [t \in LevelTypes |-> 1]
  /\ last = NoOp
  /\ ins = NoInserts
  /\ ohlcv = [s \in Symbols, tf \in CandleTables |-> {}]
  /\ det = [d \in Detectors |-> Idle]
  /\ batch = NoBatch
  /\ flt = [f \in Filterers |-> NoFilter]

\* The bucket candles the exchange may serve: range k around Mid, closing
\* at Mid.  The two
\* levels tables never read each other, and each still sees every sequence
\* of MaxVal different values.
BucketCandles ==
  {[high |-> Mid + k, low |-> Mid - k, close |-> Mid] : k \in 1..MaxVal}

\* The row insert_ohlcv stores for a candle: is_fakeout DEFAULT FALSE, the
\* other two columns NULL (create_db_schema.py lines 31-33).
Row(timestamp, c) ==
  [timestamp |-> timestamp, high |-> c.high, low |-> c.low, close |-> c.close,
   is_fakeout |-> FALSE, fakeout_type |-> "NULL", fakeout_level |-> 0]

\* Mutant of insert_ohlcv: ON CONFLICT (timestamp) DO UPDATE, the stored
\* candle is replaced by the new one.
RECURSIVE insert_ohlcv_replacing(_, _)
insert_ohlcv_replacing(table, records) ==
  IF records = <<>> THEN table
  ELSE LET ts == Head(records)[1]
           c == Head(records)[2]
       IN insert_ohlcv_replacing({r \in table : r.timestamp # ts} \cup {Row(ts, c)},
                                 Tail(records))

\* INSERT INTO <symbol>_<timeframe> ... ON CONFLICT (timestamp) DO NOTHING,
\* one statement per record (timestamp, candle), then the commit.
RECURSIVE insert_ohlcv(_, _)
insert_ohlcv(table, records) ==
  IF records = <<>> THEN table
  ELSE LET ts == Head(records)[1]
           c == Head(records)[2]
       IN insert_ohlcv(IF \E r \in table : r.timestamp = ts
                       THEN table
                       ELSE table \cup {Row(ts, c)},
                       Tail(records))


\* A bucket candle closes on the exchange; fetch_with_indicators serves it
\* from then on, with the same values at every fetch.
CloseCandle(symbol, timeframe, c) ==
  /\ Len(exchange[symbol, timeframe]) < MaxCandles
  /\ exchange' = [exchange EXCEPT ![symbol, timeframe] = Append(@, c)]
  /\ UNCHANGED <<high_levels, low_levels, next_id, last, ins, ohlcv, det, batch,
                 flt>>

\* The level a job extracts from closed candle ts: float(candle['high']) or
\* float(candle['low']).
LevelOf(symbol, timeframe, level_type, ts) ==
  IF level_type = "high" THEN exchange[symbol, timeframe][ts].high
                         ELSE exchange[symbol, timeframe][ts].low

\* DBManager.insert_levels: one INSERT per (level, timestamp) record, ids
\* from the table's SERIAL starting at `id`, and one commit for the call.
RECURSIVE insert_levels(_, _, _, _, _, _)
insert_levels(table, id, symbol, timeframe, tss, level_type) ==
  IF tss = <<>> THEN table
  ELSE insert_levels(table \cup {[id |-> id, symbol |-> symbol, timeframe |-> timeframe,
                               level |-> LevelOf(symbol, timeframe, level_type, Head(tss)),
                               timestamp |-> Head(tss)]},
                     id + 1, symbol, timeframe, Tail(tss), level_type)

\* The history of the inserts into one table after the records of candles
\* tss went in.
Inserted(history, tss) ==
  [tss |-> history.tss \cup SeqToSet(tss),
   ordered |-> history.ordered /\ (history.tss = {} \/ tss[1] > Max(history.tss))]

----------------------------------------------------------------------------
\* test_level_filter.py: the reduction of the filter_highs of the test script.

\* filter_highs line 86 of the test script: if level < min_so_far
LowerThanMinSoFar(level, min_so_far) == level < min_so_far

\* The loop of lines 85-91 after its first round.
RECURSIVE TestKeepLoop(_, _, _)
TestKeepLoop(rest, min_so_far, keep_ids) ==
  IF rest = <<>> THEN keep_ids
  ELSE LET l == Head(rest)
       IN IF LowerThanMinSoFar(l.level, min_so_far)
          THEN TestKeepLoop(Tail(rest), l.level, Append(keep_ids, l.id))
          ELSE TestKeepLoop(Tail(rest), min_so_far, keep_ids)

\* keep_ids of the test script's filter_highs for a non-empty list:
\* min_so_far starts at float('inf'), so the first round keeps the most
\* recent level.
TestHighKeepIds(levels) ==
  LET levels_reversed == Reverse(levels)
      most_recent == levels_reversed[1]
  IN TestKeepLoop(Tail(levels_reversed), most_recent.level, <<most_recent.id>>)

\* What the test script's filter_highs does to high_levels and returns.
TestFilterResult(table, symbol, timeframe, levels) ==
  IF levels = <<>>
  THEN [table |-> table, keep_ids |-> <<>>, ret |-> <<0, 0>>, executed |-> FALSE]
  ELSE LET keep_ids == TestHighKeepIds(levels)
           kept_count == Len(keep_ids)
           deleted_count == Len(levels) - kept_count
       IN [table |-> IF ShouldDelete(deleted_count)
                     THEN DeleteExcept(table, symbol, timeframe, keep_ids)
                     ELSE table,
           keep_ids |-> keep_ids,
           ret |-> <<kept_count, deleted_count>>,
           executed |-> ShouldDelete(deleted_count)]

----------------------------------------------------------------------------
\* The handlers, statement by statement.  insert_daily_candles (and the
\* weekly and monthly jobs) fetch, insert the high, insert the low, and call
\* filter_symbol_timeframe; fill_all_historical fetches and inserts the highs
\* and the lows; filter_highs and filter_lows each read the levels of the
\* key (get_levels), reduce them in memory and, when something is to be
\* deleted, run one DELETE and commit.  Every statement is committed on its
\* own, so the store is visible to the other connections between any two.

LevelsTable(level_type) == IF level_type = "high" THEN high_levels ELSE low_levels

\* The process enters filter_highs or filter_lows of its key; `before` keeps
\* the rows of the key at that moment.
Entering(run, level_type, table) ==
  [run EXCEPT !.pc = "read", !.level_type = level_type, !.levels = <<>>,
              !.keep_ids = <<>>, !.ret = <<0, 0>>,
              !.before = RowsOf(table, run.symbol, run.timeframe)]

\* The filter_highs / filter_lows call under way returns; `executed` tells
\* whether its DELETE ran.  filter_symbol_timeframe lines 195-196:
\* filter_lows follows filter_highs, and the call returns after filter_lows.
\* The test script calls its filter_highs alone and then prints
\* deleted/before_count*100 (test_level_filter.py line 168), which raises
\* ZeroDivisionError when the key held no high before the call; otherwise
\* the SELECT of its preview follows (line 171).
Advance(run, executed) ==
  LET call == [called |-> TRUE, levels |-> run.levels, keep_ids |-> run.keep_ids,
               ret |-> run.ret, executed |-> executed, before |-> run.before]
  IN IF run.level_type = "high"
     THEN IF run.op = "test_filter"
          THEN IF run.before = {}
               THEN [run EXCEPT !.high = call, !.pc = "failed",
                                !.error = "ZeroDivisionError"]
               ELSE [run EXCEPT !.high = call, !.pc = "preview"]
          ELSE Entering([run EXCEPT !.high = call], "low", low_levels)
     ELSE [run EXCEPT !.low = call, !.pc = "done"]

\* insert_daily lines 50-54 (insert_weekly, insert_monthly alike): the body
\* of the loop starts for a symbol; fetch_with_indicators serves the closed
\* candles and the job takes the last one (df.tail(1)).  When the exchange
\* fails, the except clause of line 77 ends the symbol with nothing
\* inserted.
JobFetch(f, symbol, timeframe) ==
  LET ts == Len(exchange[symbol, timeframe])
  IN /\ flt[f].pc = "idle"
     /\ ts > 0
     /\ \/ flt' = [flt EXCEPT ![f] =
                     [@ EXCEPT !.pc = "upsert", !.op = "insert_job",
                               !.symbol = symbol, !.timeframe = timeframe,
                               !.tss = <<ts>>]]
        \/ flt' = [flt EXCEPT ![f] =
                     [@ EXCEPT !.pc = "failed", !.op = "insert_job",
                               !.symbol = symbol, !.timeframe = timeframe,
                               !.error = "FetchError"]]
     /\ UNCHANGED <<exchange, high_levels, low_levels, next_id, last, ins, ohlcv,
                    det, batch>>

\* fill_all_historical lines 62-76, the body of the loop for one symbol and
\* timeframe: every closed candle is fetched; the highs and lows of all of
\* them are the records to insert.  When the exchange fails, the except
\* clause of line 95 goes on to the next key with nothing inserted.
FillFetch(f, symbol, timeframe) ==
  LET n == Len(exchange[symbol, timeframe])
  IN /\ flt[f].pc = "idle"
     /\ n > 0
     /\ \/ flt' = [flt EXCEPT ![f] =
                     [@ EXCEPT !.pc = "upsert", !.op = "fill",
                               !.symbol = symbol, !.timeframe = timeframe,
                               !.tss = [i \in 1..n |-> i]]]
        \/ flt' = [flt EXCEPT ![f] =
                     [@ EXCEPT !.pc = "failed", !.op = "fill",
                               !.symbol = symbol, !.timeframe = timeframe,
                               !.error = "FetchError"]]
     /\ UNCHANGED <<exchange, high_levels, low_levels, next_id, last, ins, ohlcv,
                    det, batch>>

\* insert_daily lines 57-58 / fill_database line 80: db.insert_ohlcv upserts
\* the fetched candles into the bucket's candle table (ON CONFLICT DO
\* NOTHING) and commits.  When the store fails under it, insert_ohlcv rolls
\* back and re-raises (db_manager.py lines 96-99), and the except clause of
\* the job ends the key with nothing inserted.
InsertCandles(f) ==
  /\ flt[f].pc = "upsert"
  /\ \/ /\ ohlcv' = [ohlcv EXCEPT ![flt[f].symbol, CandleTable(flt[f].timeframe)] =
                       insert_ohlcv(@, [i \in 1..Len(flt[f].tss) |->
                                          <<flt[f].tss[i],
                                            exchange[flt[f].symbol,
                                                     flt[f].timeframe][flt[f].tss[i]]>>])]
        /\ flt' = [flt EXCEPT ![f].pc = "insert_high"]
     \/ /\ flt' = [flt EXCEPT ![f].pc = "failed", ![f].error = "StoreError"]
        /\ UNCHANGED ohlcv
  /\ UNCHANGED <<exchange, high_levels, low_levels, next_id, last, ins, det, batch>>

\* insert_daily line 66 / fill_database line 84: db.insert_levels(..., 'high')
\* inserts the highs of the fetched candles and commits.
InsertHigh(f) ==
  /\ flt[f].pc = "insert_high"
  /\ high_levels' = insert_levels(high_levels, next_id["high"], flt[f].symbol,
                                  flt[f].timeframe, flt[f].tss, "high")
  /\ next_id' = [next_id EXCEPT !["high"] = @ + Len(flt[f].tss)]
  /\ ins' = [ins EXCEPT !["high"] = Inserted(@, flt[f].tss)]
  /\ flt' = [flt EXCEPT ![f].pc = "insert_low"]
  /\ UNCHANGED <<exchange, low_levels, last, ohlcv, det, batch>>

\* insert_daily line 69 / fill_database line 88: db.insert_levels(..., 'low').
\* The job goes on to filter_symbol_timeframe (line 72); the backfill of the
\* key is complete (it sleeps 0.2 s and moves on).
InsertLow(f) ==
  /\ flt[f].pc = "insert_low"
  /\ low_levels' = insert_levels(low_levels, next_id["low"], flt[f].symbol,
                                 flt[f].timeframe, flt[f].tss, "low")
  /\ next_id' = [next_id EXCEPT !["low"] = @ + Len(flt[f].tss)]
  /\ ins' = [ins EXCEPT !["low"] = Inserted(@, flt[f].tss)]
  /\ flt' = [flt EXCEPT ![f] = IF flt[f].op = "insert_job"
                               THEN Entering(flt[f], "high", high_levels)
                               ELSE [flt[f] EXCEPT !.pc = "done"]]
  /\ UNCHANGED <<exchange, high_levels, last, ohlcv, det, batch>>

\* insert_levels lines 131-134 when execute_batch or the commit raises: the
\* call rolls back and re-raises, no row of it is stored, and the except
\* clause of the job (insert_daily line 77, fill_database line 95) ends the
\* key.
InsertFail(f) ==
  /\ flt[f].pc \in {"insert_high", "insert_low"}
  /\ flt' = [flt EXCEPT ![f].pc = "failed", ![f].error = "StoreError"]
  /\ UNCHANGED <<exchange, high_levels, low_levels, next_id, last, ins, ohlcv,
                 det, batch>>

\* filter_all line 218: filter_symbol_timeframe for one key, with no insert.
FilterStart(f, symbol, timeframe) ==
  /\ flt[f].pc = "idle"
  /\ flt' = [flt EXCEPT ![f] =
               Entering([@ EXCEPT !.op = "filter", !.symbol = symbol,
                                  !.timeframe = timeframe], "high", high_levels)]
  /\ UNCHANGED <<exchange, high_levels, low_levels, next_id, last, ins, ohlcv,
                 det, batch>>

\* test_filter_btc_weekly_highs lines 148-163 of the test script: the
\* SELECT COUNT(*) of the highs of one key (before_count, the number of rows
\* in `before`), then filter.filter_highs on that key.  When the store fails
\* under the COUNT, the exception ends the script.
TestFilterStart(f, symbol, timeframe) ==
  /\ flt[f].pc = "idle"
  /\ \/ flt' = [flt EXCEPT ![f] =
                  Entering([@ EXCEPT !.op = "test_filter", !.symbol = symbol,
                                     !.timeframe = timeframe], "high", high_levels)]
     \/ flt' = [flt EXCEPT ![f] =
                  [@ EXCEPT !.pc = "failed", !.op = "test_filter",
                            !.symbol = symbol, !.timeframe = timeframe,
                            !.conn = "unusable", !.error = "StoreError"]]
  /\ UNCHANGED <<exchange, high_levels, low_levels, next_id, last, ins, ohlcv,
                 det, batch>>

\* test_filter_btc_weekly_highs lines 171-173: get_filtered_levels_preview
\* selects the newest levels of the key, and the script closes the
\* connection and ends.
TestPreview(f) ==
  /\ flt[f].pc = "preview"
  /\ flt' = [flt EXCEPT ![f].pc = "done"]
  /\ UNCHANGED <<exchange, high_levels, low_levels, next_id, last, ins, ohlcv,
                 det, batch>>

\* What the call under way does with the list it read: the reduction of
\* level_filter.py, or that of the test script.
Reduction(run, table, levels) ==
  IF run.op = "test_filter"
  THEN TestFilterResult(table, run.symbol, run.timeframe, levels)
  ELSE FilterResult(table, run.symbol, run.timeframe, run.level_type, levels)

\* filter_highs lines 82-110: get_levels and the reduction.  With nothing to
\* delete the call returns without a DELETE (lines 84-86, 122-123).
FilterRead(f) ==
  /\ flt[f].pc = "read"
  /\ flt[f].conn = "usable"
  /\ \E levels \in LevelFilter_get_levels(LevelsTable(flt[f].level_type),
                                          flt[f].symbol, flt[f].timeframe) :
       LET res == Reduction(flt[f], {}, levels)
           run == [flt[f] EXCEPT !.levels = levels, !.keep_ids = res.keep_ids,
                                 !.ret = res.ret]
       IN flt' = [flt EXCEPT ![f] = IF res.executed
                                    THEN [run EXCEPT !.pc = "delete"]
                                    ELSE Advance(run, FALSE)]
  /\ UNCHANGED <<exchange, high_levels, low_levels, next_id, last, ins, ohlcv,
                 det, batch>>

\* Mutant of Executed: the connection is in autocommit mode, and the DELETE
\* is in the table as soon as it was executed.
ExecutedAutocommit(table, after) == [table |-> after, pending |-> {}]

\* The store and the open transaction of a connection with autocommit off
\* (__init__ line 33) once it has executed a statement that turns `table`
\* into `after`: the table the other connections see is as it was, and the
\* deleted rows wait in the transaction for the commit.
Executed(table, after) == [table |-> table, pending |-> table \ after]

\* filter_highs lines 112-117: the DELETE of the rows of the key whose id is
\* not in keep_ids is executed in the transaction of the connection.
FilterDelete(f) ==
  /\ flt[f].pc = "delete"
  /\ flt[f].conn = "usable"
  /\ LET table == LevelsTable(flt[f].level_type)
         tx == Executed(table, Reduction(flt[f], table, flt[f].levels).table)
     IN /\ IF flt[f].level_type = "high"
           THEN high_levels' = tx.table /\ UNCHANGED low_levels
           ELSE low_levels' = tx.table /\ UNCHANGED high_levels
        /\ flt' = [flt EXCEPT ![f].pc = "commit", ![f].pending = tx.pending]
  /\ UNCHANGED <<exchange, next_id, last, ins, ohlcv, det, batch>>

\* filter_highs lines 119-125: self.conn.commit() makes the deletion of the
\* transaction visible, all of it at once, and the call returns.
FilterCommit(f) ==
  /\ flt[f].pc = "commit"
  /\ IF flt[f].level_type = "high"
     THEN high_levels' = high_levels \ flt[f].pending /\ UNCHANGED low_levels
     ELSE low_levels' = low_levels \ flt[f].pending /\ UNCHANGED high_levels
  /\ flt' = [flt EXCEPT ![f] = Advance([flt[f] EXCEPT !.pending = {}], TRUE)]
  /\ UNCHANGED <<exchange, next_id, last, ins, ohlcv, det, batch>>

\* The store fails under the SELECT of get_levels, under the DELETE, under
\* its commit or under the SELECT of the test script's preview; the
\* exception leaves filter_highs / filter_lows and filter_symbol_timeframe,
\* which have no try/except and never call rollback: the connection of the
\* LevelFilter (autocommit off) is left closed or with its transaction
\* aborted, what the transaction held is never committed, and every later
\* statement on the connection raises as well.
FilterFail(f) ==
  /\ flt[f].pc \in {"read", "delete", "commit", "preview"}
  /\ flt' = [flt EXCEPT ![f].pc = "failed", ![f].conn = "unusable",
                        ![f].pending = {}, ![f].raised_at = flt[f].pc,
                        ![f].error = IF flt[f].conn = "usable"
                                     THEN "StoreError" ELSE "ConnectionUnusable"]
  /\ UNCHANGED <<exchange, high_levels, low_levels, next_id, last, ins, ohlcv,
                 det, batch>>

\* What a handler run that ended leaves in `last`: a run that raised or
\* that filtered nothing leaves no result.
Outcome(run) ==
  IF run.pc = "failed" \/ run.op = "fill"
  THEN [NoOp EXCEPT !.op = IF run.pc = "failed" THEN "failed" ELSE run.op,
                    !.symbol = run.symbol, !.timeframe = run.timeframe]
  ELSE [op |-> run.op, symbol |-> run.symbol, timeframe |-> run.timeframe,
        high |-> run.high.ret, low |-> run.low.ret, record |-> run.tss,
        rows |-> [t \in LevelTypes |->
                    RowsOf(LevelsTable(t), run.symbol, run.timeframe)]]

\* The handler has returned or raised, and its process with it: the next
\* run of the schedule starts with new connections.
Finish(f) ==
  /\ flt[f].pc \in {"done", "failed"}
  /\ batch = NoBatch
  /\ last' = Outcome(flt[f])
  /\ flt' = [flt EXCEPT ![f] = NoFilter]
  /\ UNCHANGED <<exchange, high_levels, low_levels, next_id, ins, ohlcv, det,
                 batch>>

\* The bound of the model on the rows of the levels tables: a job that
\* inserts n levels of each type starts while they fit.
RowsLeft(n) == \A t \in LevelTypes : next_id[t] + n - 1 <= MaxRows

\* One process at a time, as the schedule starts them: the body of the
\* loop of an insert job or of the backfill for a key, and filter passes,
\* each statement a step, any of which the store may fail; candles close on
\* the exchange meanwhile.  This store holds no monthly level, so the
\* check_all_symbols('1d') that ends insert_daily_candles changes no row
\* of it; that check is a step of NextJobPass.
Next ==
  \/ \E symbol \in Symbols, timeframe \in Buckets, c \in BucketCandles :
       CloseCandle(symbol, timeframe, c)
  \/ \E symbol \in Symbols, timeframe \in Buckets :
       RowsLeft(1) /\ JobFetch("f1", symbol, timeframe)
  \/ \E symbol \in Symbols, timeframe \in Buckets :
       RowsLeft(Len(exchange[symbol, timeframe])) /\ FillFetch("f1", symbol, timeframe)
  \/ \E symbol \in Symbols, timeframe \in Buckets : FilterStart("f1", symbol, timeframe)
  \/ InsertCandles("f1")
  \/ InsertHigh("f1")
  \/ InsertLow("f1")
  \/ InsertFail("f1")
  \/ FilterRead("f1")
  \/ FilterDelete("f1")
  \/ FilterCommit("f1")
  \/ FilterFail("f1")
  \/ Finish("f1")

Spec == Init /\ [][Next]_vars

----------------------------------------------------------------------------
\* The detector: runs of check_hourly_fakeouts against a store that has been
\* backfilled.

\* The closed candles of a lower timeframe: low <= close <= high.
LowerCandles ==
  {c \in [high : Prices, low : Prices, close : Prices] :
     c.low <= c.close /\ c.close <= c.high}

\* An earlier closed candle of the lower timeframe, whose wicks pierce every
\* level of the bucket.
WideCandle == [high |-> 2 * MaxVal + 1, low |-> 1, close |-> Mid]

Histories(n) == UNION {[1..k -> BucketCandles] : k \in 0..n}

\* The store after fill_database ran over up to MaxBackfill closed bucket
\* candles, which are in the bucket's candle table, with no closed candle in
\* the lower timeframe's table, or one of `candles` as its newest row, alone
\* or after an earlier candle.
Backfilled(candles) ==
  /\ \E h \in Histories(MaxBackfill) :
       exchange = [s \in Symbols, b \in Buckets |-> h]
  /\ \E s \in Symbols, b \in Buckets :
       LET n == Len(exchange[s, b])
           tss == [i \in 1..n |-> i]
       IN /\ high_levels = insert_levels({}, 1, s, b, tss, "high")
          /\ low_levels = insert_levels({}, 1, s, b, tss, "low")
          /\ next_id = [t \in LevelTypes |-> n + 1]
          /\ ins = [t \in LevelTypes |-> [tss |-> 1..n, ordered |-> TRUE]]
          /\ last = IF n = 0 THEN NoOp
                    ELSE [NoOp EXCEPT !.op = "fill", !.symbol = s, !.timeframe = b]
  /\ \E t \in {{}} \cup {{Row(2, c)} : c \in candles}
                   \cup {{Row(1, WideCandle), Row(2, c)} : c \in candles} :
       ohlcv = [s \in Symbols, tf \in CandleTables |->
                  IF tf \in LowerTimeframes THEN t
                  ELSE {Row(i, exchange[s, CHOOSE b \in Buckets : CandleTable(b) = tf][i]) :
                          i \in 1..Len(exchange[s, CHOOSE b \in Buckets :
                                                      CandleTable(b) = tf])}]
  /\ det = [d \in Detectors |-> Idle]
  /\ batch = NoBatch
  /\ flt = [f \in Filterers |-> NoFilter]

\* check_hourly_fakeouts lines 180-188: the newest candle is read; the run
\* ends when there is none or when it is already marked.  get_latest_candle
\* has no try/except: when its SELECT raises, the exception leaves the run.
GetLatestCandle(d, symbol, timeframe) ==
  /\ det[d].pc = "idle"
  /\ LET found == get_latest_candle(ohlcv[symbol, timeframe])
         run == [Idle EXCEPT !.symbol = symbol, !.timeframe = timeframe]
     IN \/ IF found = {}
           THEN det' = [det EXCEPT ![d] = Ended(run, "no_data")]
           ELSE LET row == CHOOSE r \in found : TRUE
                    candle == [timestamp |-> row.timestamp, high |-> row.high,
                               low |-> row.low, close |-> row.close,
                               is_fakeout |-> row.is_fakeout]
                IN IF AlreadyMarked(candle)
                   THEN det' = [det EXCEPT ![d] =
                                  Ended([run EXCEPT !.candle = candle], "skipped")]
                   ELSE det' = [det EXCEPT ![d] = [run EXCEPT !.pc = "highs",
                                                              !.candle = candle]]
        \/ det' = [det EXCEPT ![d] = Ended(run, "read_error")]
  /\ UNCHANGED <<exchange, high_levels, low_levels, next_id, last, ins, ohlcv,
               batch, flt>>

\* line 191: high_levels = self.get_levels(symbol, 'daily', 'high')
GetHighLevels(d) ==
  /\ det[d].pc = "highs"
  /\ det' = [det EXCEPT ![d].pc = "lows",
                        ![d].high_levels =
                          FakeoutDetector_get_levels(high_levels, det[d].symbol,
                                                     BucketOf(det[d].timeframe))]
  /\ UNCHANGED <<exchange, high_levels, low_levels, next_id, last, ins, ohlcv,
               batch, flt>>

\* line 192: low_levels = self.get_levels(symbol, 'daily', 'low')
GetLowLevels(d) ==
  /\ det[d].pc = "lows"
  /\ det' = [det EXCEPT ![d].pc = "check",
                        ![d].low_levels =
                          FakeoutDetector_get_levels(low_levels, det[d].symbol,
                                                     BucketOf(det[d].timeframe))]
  /\ UNCHANGED <<exchange, high_levels, low_levels, next_id, last, ins, ohlcv,
               batch, flt>>

\* lines 191-192 when the SELECT of get_levels raises: get_levels has no
\* try/except and the exception leaves check_hourly_fakeouts.
ReadFail(d) ==
  /\ det[d].pc \in {"highs", "lows"}
  /\ det' = [det EXCEPT ![d] = Ended(det[d], "read_error")]
  /\ UNCHANGED <<exchange, high_levels, low_levels, next_id, last, ins, ohlcv,
               batch, flt>>

\* lines 196-211: check_fakeout on the highs, then on the lows; a match is
\* written by mark_fakeout and the run returns True.  When the UPDATE or its
\* commit fails, mark_fakeout rolls back, logs the error and re-raises
\* (lines 165-168); when the connection is lost, the rollback raises in its
\* place.  Either exception leaves check_hourly_fakeouts, and the row is
\* as it was.
CheckAndMark(d) ==
  /\ det[d].pc = "check"
  /\ LET result == CheckResult(det[d].candle, det[d].high_levels, det[d].low_levels)
         key == <<det[d].symbol, det[d].timeframe>>
     IN IF result # None
        THEN \/ /\ ohlcv' = [ohlcv EXCEPT ![key] =
                               mark_fakeout(@, det[d].candle.timestamp,
                                            result[1], result[2])]
                /\ det' = [det EXCEPT ![d] =
                             Ended([det[d] EXCEPT !.result = result], "marked")]
             \/ /\ det' = [det EXCEPT ![d] = Ended(det[d], "error")]
                /\ UNCHANGED ohlcv
             \/ /\ det' = [det EXCEPT ![d] = Ended(det[d], "connection_lost")]
                /\ UNCHANGED ohlcv
        ELSE /\ det' = [det EXCEPT ![d] = Ended(det[d], "no_match")]
             /\ UNCHANGED ohlcv
  /\ UNCHANGED <<exchange, high_levels, low_levels, next_id, last, ins, batch, flt>>

\* The run has returned; the next tick of the schedule starts another.
Return(d) ==
  /\ det[d].pc = "done"
  /\ det' = [det EXCEPT ![d] = Idle]
  /\ UNCHANGED <<exchange, high_levels, low_levels, next_id, last, ins, ohlcv,
               batch, flt>>

\* One detector at a time, as the cron schedule runs it, and a process
\* running filter passes statement by statement between its steps.
InitDetect == Backfilled(LowerCandles)

NextDetect ==
  \/ \E symbol \in Symbols, timeframe \in LowerTimeframes :
       GetLatestCandle("d1", symbol, timeframe)
  \/ GetHighLevels("d1")
  \/ GetLowLevels("d1")
  \/ ReadFail("d1")
  \/ CheckAndMark("d1")
  \/ Return("d1")
  \/ \E symbol \in Symbols, timeframe \in Buckets : FilterStart("f1", symbol, timeframe)
  \/ FilterRead("f1")
  \/ FilterDelete("f1")
  \/ FilterCommit("f1")
  \/ FilterFail("f1")
  \/ Finish("f1")

SpecDetect == InitDetect /\ [][NextDetect]_vars

\* Two overlapping detector runs and a filter pass.  Every level lies
\* strictly above or below Mid, so for a candle that closes at Mid the wicks
\* alone decide which levels it fakes out.
MidCandles == {c \in LowerCandles : c.close = Mid}

InitOverlap == Backfilled(MidCandles)

NextOverlap ==
  \/ \E d \in Detectors, symbol \in Symbols, timeframe \in LowerTimeframes :
       GetLatestCandle(d, symbol, timeframe)
  \/ \E d \in Detectors : GetHighLevels(d)
  \/ \E d \in Detectors : GetLowLevels(d)
  \/ \E d \in Detectors : ReadFail(d)
  \/ \E d \in Detectors : CheckAndMark(d)
  \/ \E d \in Detectors : Return(d)
  \/ \E symbol \in Symbols, timeframe \in Buckets : FilterStart("f1", symbol, timeframe)
  \/ FilterRead("f1")
  \/ FilterDelete("f1")
  \/ FilterCommit("f1")
  \/ FilterFail("f1")
  \/ Finish("f1")

SpecOverlap == InitOverlap /\ [][NextOverlap]_vars

----------------------------------------------------------------------------
\* Insert jobs and filter passes on a store that has been backfilled.

\* The store after the backfill, no candle of a lower timeframe.
InitSteps == Backfilled({})

\* One process at a time runs insert jobs and filter passes, step by step,
\* any of which the store may fail; candles close on the exchange whenever
\* they do, whatever the store holds.
NextSteps ==
  \/ \E symbol \in Symbols, timeframe \in Buckets, c \in BucketCandles :
       CloseCandle(symbol, timeframe, c)
  \/ \E symbol \in Symbols, timeframe \in Buckets :
       RowsLeft(1) /\ JobFetch("f1", symbol, timeframe)
  \/ \E symbol \in Symbols, timeframe \in Buckets : FilterStart("f1", symbol, timeframe)
  \/ InsertCandles("f1")
  \/ InsertHigh("f1")
  \/ InsertLow("f1")
  \/ InsertFail("f1")
  \/ FilterRead("f1")
  \/ FilterDelete("f1")
  \/ FilterCommit("f1")
  \/ FilterFail("f1")
  \/ Finish("f1")

SpecSteps == InitSteps /\ [][NextSteps]_vars

\* The store after the backfill ran over MaxBackfill closed candles of the
\* bucket: both tables hold a level of each, so that a filter pass has rows
\* to read and to delete while an insert job adds the level of the next
\* candle.
InitConcurrent ==
  /\ InitSteps
  /\ \A s \in Symbols, b \in Buckets : Len(exchange[s, b]) = MaxBackfill

\* Two processes overlap: f1 runs filter passes (filter_all), f2 runs insert
\* jobs with the filter call that ends each of them; the statements of the
\* two interleave in every order, each on its own connection, and the
\* store may fail any of them; candles close on the exchange meanwhile.
NextConcurrent ==
  \/ \E symbol \in Symbols, timeframe \in Buckets, c \in BucketCandles :
       CloseCandle(symbol, timeframe, c)
  \/ \E symbol \in Symbols, timeframe \in Buckets :
       RowsLeft(1) /\ JobFetch("f2", symbol, timeframe)
  \/ \E symbol \in Symbols, timeframe \in Buckets : FilterStart("f1", symbol, timeframe)
  \/ \E f \in Filterers : InsertCandles(f)
  \/ \E f \in Filterers : InsertHigh(f)
  \/ \E f \in Filterers : InsertLow(f)
  \/ \E f \in Filterers : FilterRead(f)
  \/ \E f \in Filterers : FilterDelete(f)
  \/ \E f \in Filterers : FilterCommit(f)
  \/ \E f \in Filterers : InsertFail(f)
  \/ \E f \in Filterers : FilterFail(f)
  \/ \E f \in Filterers : Finish(f)

SpecConcurrent == InitConcurrent /\ [][NextConcurrent]_vars

----------------------------------------------------------------------------
\* The filter on given lists of levels: the tables hold the levels of a list,
\* oldest first, and filter passes run over them.

\* The input of the example in the docstring of filter_highs, oldest first.
ExampleHighs == <<3, 9, 4, 7, 2, 3, 6, 2, 4>>

\* The input of the example in the docstring of filter_lows, oldest first.
ExampleLows == <<9, 3, 6, 4, 8, 7, 5, 8, 6>>

\* The pairs of lists the tables may hold: every run of consecutive levels
\* of the two examples, and every list of up to MaxCandles levels with two
\* values, where levels repeat.
ExampleInputs ==
  {<<SubSeq(ExampleHighs, i, j), SubSeq(ExampleLows, i, j)>> :
     i \in 1..Len(ExampleHighs), j \in 1..Len(ExampleHighs)}
  \cup UNION {{<<s, s>> : s \in [1..n -> {5, 6}]} : n \in 1..MaxCandles}

\* The rows of a levels table that holds `values` for one key: ids from the
\* SERIAL column and timestamps in the order of the list.
ExampleRows(symbol, timeframe, values) ==
  {[id |-> i, symbol |-> symbol, timeframe |-> timeframe, level |-> values[i],
    timestamp |-> i] : i \in 1..Len(values)}

\* The tables hold one pair of lists; no candle closes while they are filtered.
InitExamples ==
  /\ \E symbol \in Symbols, timeframe \in Buckets, input \in ExampleInputs :
       /\ high_levels = ExampleRows(symbol, timeframe, input[1])
       /\ low_levels = ExampleRows(symbol, timeframe, input[2])
       /\ next_id = [t \in LevelTypes |-> Len(input[1]) + 1]
       /\ ins = [t \in LevelTypes |-> [tss |-> 1..Len(input[1]), ordered |-> TRUE]]
       /\ last = IF input[1] = <<>> THEN NoOp
                 ELSE [NoOp EXCEPT !.op = "fill", !.symbol = symbol,
                                   !.timeframe = timeframe]
  /\ exchange = [s \in Symbols, b \in Buckets |-> <<>>]
  /\ ohlcv = [s \in Symbols, tf \in LowerTimeframes |-> {}]
  /\ det = [d \in Detectors |-> Idle]
  /\ batch = NoBatch
  /\ flt = [f \in Filterers |-> NoFilter]

\* filter_all over the key, any number of times, statement by statement.
NextExamples ==
  \/ \E symbol \in Symbols, timeframe \in Buckets : FilterStart("f1", symbol, timeframe)
  \/ FilterRead("f1")
  \/ FilterDelete("f1")
  \/ FilterCommit("f1")
  \/ FilterFail("f1")
  \/ Finish("f1")

SpecExamples == InitExamples /\ [][NextExamples]_vars

----------------------------------------------------------------------------
\* db_manager.py: DBManager.insert_ohlcv, and the candle jobs that call it.

\* The candles a fetch may serve for the lower timeframe: one whose wicks
\* pierce every level, and one that touches none.
UpsertCandles == {WideCandle, [high |-> Mid, low |-> Mid, close |-> Mid]}

\* The store after the backfill of at most one bucket candle, with candles
\* of the lower timeframe.
InitAlert ==
  /\ Backfilled(UpsertCandles)
  /\ \A s \in Symbols, b \in Buckets : Len(exchange[s, b]) <= 1

----------------------------------------------------------------------------
\* telegram_notifier.py: TelegramNotifier.send_fakeout_alert

\* send_message lines 51-59: the message is sent once; a TelegramError is
\* logged and re-raised.
send_message(delivers) == IF delivers THEN "sent" ELSE "TelegramError"

\* Mutant of AlertOutcome: the except clause re-raises after logging.
AlertReraises(sent) ==
  IF sent = "sent" THEN <<TRUE, 1, FALSE, "info">> ELSE <<FALSE, 1, TRUE, "error">>

\* send_fakeout_alert lines 98-103: one asyncio.run(send_message) inside
\* try; any exception is logged as an error and the call returns.  The
\* outcome is (delivered, sends attempted, raised to the caller, log level).
AlertOutcome(sent) ==
  IF sent = "sent" THEN <<TRUE, 1, FALSE, "info">> ELSE <<FALSE, 1, FALSE, "error">>

\* A caller alerts for a fakeout recorded in the store; the notifier holds
\* no store connection.
send_fakeout_alert(symbol, timeframe) ==
  /\ \E r \in ohlcv[symbol, timeframe], delivers \in BOOLEAN :
       /\ r.is_fakeout
       /\ last' = [NoOp EXCEPT !.op = "alert", !.symbol = symbol,
                               !.timeframe = timeframe,
                               !.record = <<r.timestamp>>
                                          \o AlertOutcome(send_message(delivers))]
  /\ UNCHANGED <<exchange, high_levels, low_levels, next_id, ins, ohlcv, det,
                 batch, flt>>

\* One detector, and a caller of the notifier.
NextAlert ==
  \/ \E symbol \in Symbols, timeframe \in LowerTimeframes :
       GetLatestCandle("d1", symbol, timeframe)
  \/ GetHighLevels("d1")
  \/ GetLowLevels("d1")
  \/ ReadFail("d1")
  \/ CheckAndMark("d1")
  \/ Return("d1")
  \/ \E symbol \in Symbols, timeframe \in LowerTimeframes :
       send_fakeout_alert(symbol, timeframe)

SpecAlert == InitAlert /\ [][NextAlert]_vars


----------------------------------------------------------------------------
\* test_level_filter.py run against the store.

\* On tables that hold given lists, the filter of level_filter.py or the
\* filter_highs of the test script runs, statement by statement.
NextTestFilter ==
  \/ \E symbol \in Symbols, timeframe \in Buckets : FilterStart("f1", symbol, timeframe)
  \/ \E symbol \in Symbols, timeframe \in Buckets :
       TestFilterStart("f1", symbol, timeframe)
  \/ FilterRead("f1")
  \/ FilterDelete("f1")
  \/ FilterCommit("f1")
  \/ TestPreview("f1")
  \/ FilterFail("f1")
  \/ Finish("f1")

SpecTestFilter == InitExamples /\ [][NextTestFilter]_vars

----------------------------------------------------------------------------
\* Several keys in the levels tables: filter calls and detector runs.

KeySymbols == {"btcusdt", "ethusdt"}
KeyBuckets == {"daily", "weekly"}

\* The position of a key among the four keys, for the ids of its rows.
KeyIndex(symbol, timeframe) ==
  (IF symbol = "btcusdt" THEN 0 ELSE 2) + (IF timeframe = "daily" THEN 0 ELSE 1)

\* A levels table after the backfill of two candles for every key, the
\* older level being one a filter call deletes.
KeyLevels(level_type) ==
  {[id |-> 2 * KeyIndex(s, b) + ts, symbol |-> s, timeframe |-> b,
    level |-> IF level_type = "high" THEN Mid + ts ELSE Mid - ts,
    timestamp |-> ts] : s \in KeySymbols, b \in KeyBuckets, ts \in 1..2}

InitKeys ==
  /\ exchange = [s \in Symbols, b \in Buckets |-> <<>>]
  /\ high_levels = KeyLevels("high")
  /\ low_levels = KeyLevels("low")
  /\ next_id = [t \in LevelTypes |-> 2 * Cardinality(KeySymbols \X KeyBuckets) + 1]
  /\ last = NoOp
  /\ ins = NoInserts
  /\ ohlcv = [s \in KeySymbols, tf \in LowerTimeframes |-> {Row(1, WideCandle)}]
  /\ det = [d \in Detectors |-> Idle]
  /\ batch = NoBatch
  /\ flt = [f \in Filterers |-> NoFilter]

\* filter_all over the keys, step by step, and runs of the detector.
NextKeys ==
  \/ \E symbol \in KeySymbols, timeframe \in KeyBuckets :
       FilterStart("f1", symbol, timeframe)
  \/ FilterRead("f1")
  \/ FilterDelete("f1")
  \/ FilterCommit("f1")
  \/ FilterFail("f1")
  \/ Finish("f1")
  \/ \E timeframe \in LowerTimeframes : GetLatestCandle("d1", "btcusdt", timeframe)
  \/ GetHighLevels("d1")
  \/ GetLowLevels("d1")
  \/ ReadFail("d1")
  \/ CheckAndMark("d1")
  \/ Return("d1")

SpecKeys == InitKeys /\ [][NextKeys]_vars


----------------------------------------------------------------------------
\* FakeoutDetector.check_all_symbols: one pass over the tracked symbols.

\* The first two symbols of the list at lines 300-301, in its order.
BatchSymbols == <<"btcusdt", "ethusdt">>

\* The timeframes a cron job or an operator may pass to check_all_symbols;
\* tables exist for all of them.
BatchTimeframes == {"5m", "1h", "4h", "1d"}

\* The keys of method_map, lines 303-307.
MethodMap == {"1h", "4h", "1d"}

AllBuckets == {"daily", "weekly", "monthly"}

\* The high (low) level each bucket holds in the pass's store: a different
\* value for every bucket.
BucketLevel(timeframe, level_type) ==
  LET k == CASE timeframe = "daily" -> 1
             [] timeframe = "weekly" -> 2
             [] timeframe = "monthly" -> 3
  IN IF level_type = "high" THEN Mid + k ELSE Mid - k

BucketRows(level_type) ==
  {[id |-> 3 * (i - 1) + (BucketLevel(b, "high") - Mid),
    symbol |-> BatchSymbols[i], timeframe |-> b,
    level |-> BucketLevel(b, level_type), timestamp |-> 1] :
     i \in 1..Len(BatchSymbols), b \in AllBuckets}

\* What the table of a checked timeframe may hold for a symbol: nothing, a
\* candle whose wicks pierce every level and that closes at Mid, or a candle
\* that stays at Mid.
BatchTables ==
  {{}, {Row(1, [high |-> Mid + 4, low |-> Mid - 4, close |-> Mid])},
       {Row(1, [high |-> Mid, low |-> Mid, close |-> Mid])}}

InitBatch ==
  /\ exchange = [s \in Symbols, b \in Buckets |-> <<>>]
  /\ high_levels = BucketRows("high")
  /\ low_levels = BucketRows("low")
  /\ next_id = [t \in LevelTypes |-> 3 * Len(BatchSymbols) + 1]
  /\ last = NoOp
  /\ ins = NoInserts
  /\ \E t \in [SeqToSet(BatchSymbols) -> BatchTables] :
       ohlcv = [s \in SeqToSet(BatchSymbols), tf \in MethodMap |-> t[s]]
  /\ det = [d \in Detectors |-> Idle]
  /\ batch = NoBatch
  /\ flt = [f \in Filterers |-> NoFilter]

\* lines 300-312: a timeframe that is not a key of method_map raises
\* ValueError; otherwise the loop over the symbols starts.
StartBatch(timeframe) ==
  /\ batch.pc = "idle"
  /\ batch' = IF timeframe \notin MethodMap
              THEN [batch EXCEPT !.pc = "raised", !.timeframe = timeframe,
                                 !.error = "ValueError"]
              ELSE [batch EXCEPT !.pc = "loop", !.timeframe = timeframe,
                                 !.todo = BatchSymbols]
  /\ UNCHANGED <<exchange, high_levels, low_levels, next_id, last, ins, ohlcv,
                 det, flt>>

\* line 314-315: check_method(symbol) for the next symbol of the list.
BatchCheck(d) ==
  /\ batch.pc = "loop"
  /\ batch.todo # <<>>
  /\ GetLatestCandle(d, Head(batch.todo), batch.timeframe)

\* lines 314-319: the check of a symbol has returned and the loop moves on,
\* counting a True; the pass ends after the last symbol.  There is no
\* try/except around check_method, so an exception out of it ends the pass.
BatchNext(d) ==
  /\ batch.pc = "loop"
  /\ det[d].pc = "done"
  /\ LET seen == Append(batch.checked,
                        [symbol |-> det[d].symbol, outcome |-> det[d].outcome])
     IN batch' =
          IF det[d].raised
          THEN [batch EXCEPT !.pc = "raised", !.error = "StoreError",
                             !.checked = seen]
          ELSE [batch EXCEPT !.pc = IF Tail(batch.todo) = <<>> THEN "done" ELSE "loop",
                             !.todo = Tail(batch.todo),
                             !.checked = seen,
                             !.fakeouts_found = IF det[d].ret THEN @ + 1 ELSE @]
  /\ det' = [det EXCEPT ![d] = Idle]
  /\ UNCHANGED <<exchange, high_levels, low_levels, next_id, last, ins, ohlcv, flt>>

\* insert_daily.py lines 86-91, insert_4h.py lines 69-74: when the loop over
\* the symbols has ended and the job has closed its connections, it creates
\* a FakeoutDetector and calls check_all_symbols with its timeframe; the
\* job returns when the pass has, and an exception out of the pass leaves
\* the job.
JobCheckAll ==
  /\ batch.job.pc = "fakeouts"
  /\ StartBatch(batch.job.check)

\* The candle job has returned, or an exception out of check_all_symbols
\* has ended it; the schedule may start the next one.
JobReturn ==
  /\ batch.job.pc = "fakeouts"
  /\ batch.pc \in {"done", "raised"}
  /\ det["d1"].pc = "idle"
  /\ batch' = NoBatch
  /\ UNCHANGED <<exchange, high_levels, low_levels, next_id, last, ins, ohlcv,
                 det, flt>>

NextBatch ==
  \/ \E timeframe \in BatchTimeframes : StartBatch(timeframe)
  \/ BatchCheck("d1")
  \/ GetHighLevels("d1")
  \/ GetLowLevels("d1")
  \/ ReadFail("d1")
  \/ CheckAndMark("d1")
  \/ BatchNext("d1")

SpecBatch == InitBatch /\ [][NextBatch]_vars


----------------------------------------------------------------------------
\* insert_4h.py: insert_4h_candles, run after run as the schedule starts it.

\* The timeframe of the job, lines 51 and 56, and of its check, line 72.
CandleJobTimeframes == {"4h"}

\* lines 39-46: the job creates its DataFetcher and its DBManager and
\* enters the loop over the symbols.
StartCandleJob(timeframe) ==
  /\ batch = NoBatch
  /\ batch' = [NoBatch EXCEPT !.job =
                 [NoJobPass EXCEPT !.pc = "candles", !.timeframe = timeframe,
                                   !.todo = BatchSymbols, !.check = timeframe]]
  /\ UNCHANGED <<exchange, high_levels, low_levels, next_id, last, ins, ohlcv,
                 det, flt>>

\* lines 46-67, the body of the loop for the next symbol: the last closed
\* candle the fetch served goes to insert_ohlcv (success += 1); when the
\* exchange fails, or the store under insert_ohlcv, which rolls back and
\* re-raises, the except clause of line 61 counts the symbol as failed.  After the last symbol
\* the job closes its DBManager and goes on to the check of the fakeouts.
insert_candles ==
  /\ batch.job.pc = "candles"
  /\ batch.job.todo # <<>>
  /\ LET symbol == Head(batch.job.todo)
         timeframe == batch.job.timeframe
         after(ok) ==
           [batch EXCEPT
              !.job.todo = Tail(@),
              !.job.pc = IF Tail(batch.job.todo) = <<>> THEN "fakeouts" ELSE "candles",
              !.job.success = IF ok THEN @ + 1 ELSE @,
              !.job.failed = IF ok THEN @ ELSE @ + 1,
              !.job.checked = Append(@, [symbol |-> symbol,
                                         error |-> IF ok THEN "" ELSE "StoreError",
                                         failed_at |-> "none"])]
     IN \E ts \in 1..MaxCandles, c \in UpsertCandles :
          \/ /\ ohlcv' = [ohlcv EXCEPT ![symbol, timeframe] =
                            insert_ohlcv(@, <<<<ts, c>>>>)]
             /\ last' = [NoOp EXCEPT !.op = "upsert", !.symbol = symbol,
                                     !.timeframe = timeframe, !.record = <<ts, c>>]
             /\ batch' = after(TRUE)
          \/ /\ UNCHANGED ohlcv
             /\ last' = [NoOp EXCEPT !.op = "upsert_failed", !.symbol = symbol,
                                     !.timeframe = timeframe, !.record = <<ts, c>>]
             /\ batch' = after(FALSE)
  /\ UNCHANGED <<exchange, high_levels, low_levels, next_id, ins, det, flt>>

\* The weekly levels of the symbols when the jobs run: one high at Mid + 1
\* and one low at Mid - 1 for each.
WeeklyRows(level_type) ==
  {[id |-> i, symbol |-> BatchSymbols[i], timeframe |-> "weekly",
    level |-> IF level_type = "high" THEN Mid + 1 ELSE Mid - 1, timestamp |-> 1] :
     i \in 1..Len(BatchSymbols)}

\* The store when the first job starts: weekly levels, and a table of
\* every symbol that is empty or holds one candle of an earlier job.
InitUpsert ==
  /\ exchange = [s \in Symbols, b \in Buckets |-> <<>>]
  /\ high_levels = WeeklyRows("high")
  /\ low_levels = WeeklyRows("low")
  /\ next_id = [t \in LevelTypes |-> Len(BatchSymbols) + 1]
  /\ last = NoOp
  /\ ins = NoInserts
  /\ \E t \in [SeqToSet(BatchSymbols) -> {{}, {Row(1, WideCandle)}}] :
       ohlcv = [s \in SeqToSet(BatchSymbols), tf \in CandleJobTimeframes |-> t[s]]
  /\ det = [d \in Detectors |-> Idle]
  /\ batch = NoBatch
  /\ flt = [f \in Filterers |-> NoFilter]

\* insert_4h_candles as the schedule runs it: the loop over the symbols,
\* then check_all_symbols('4h'), then the next run.
NextUpsert ==
  \/ \E timeframe \in CandleJobTimeframes : StartCandleJob(timeframe)
  \/ insert_candles
  \/ JobCheckAll
  \/ BatchCheck("d1")
  \/ GetHighLevels("d1")
  \/ GetLowLevels("d1")
  \/ ReadFail("d1")
  \/ CheckAndMark("d1")
  \/ BatchNext("d1")
  \/ JobReturn

SpecUpsert == InitUpsert /\ [][NextUpsert]_vars

----------------------------------------------------------------------------
\* insert_daily.py: one run of insert_daily_candles, the loop over the
\* symbols with the LevelFilter it creates once (line 41) and uses for every
\* symbol, and the check of the daily candles that ends it.

\* The monthly high a symbol holds when the job runs: one that the daily
\* candles of range 2 and more pierce, or one that none reaches.
MonthlyHighs == {Mid + 1, Mid + MaxVal}

\* The monthly levels of the symbols: one high and one low for each, the
\* low at Mid - 1.
MonthlyRows(level_type, high) ==
  {[id |-> i, symbol |-> BatchSymbols[i], timeframe |-> "monthly",
    level |-> IF level_type = "high" THEN high ELSE Mid - 1, timestamp |-> 1] :
     i \in 1..Len(BatchSymbols)}

\* The store when the job starts: two closed daily candles on the exchange
\* for every symbol; the first one, its candle and its levels, stored for
\* the first symbol by the job of the day before; monthly levels for every
\* symbol.
InitJobPass ==
  /\ \E h \in [1..2 -> BucketCandles] :
       exchange = [s \in SeqToSet(BatchSymbols), b \in Buckets |-> h]
  /\ \E b \in Buckets, high \in MonthlyHighs :
       LET n == Len(BatchSymbols)
       IN /\ high_levels = insert_levels(MonthlyRows("high", high), n + 1,
                                         BatchSymbols[1], b, <<1>>, "high")
          /\ low_levels = insert_levels(MonthlyRows("low", high), n + 1,
                                        BatchSymbols[1], b, <<1>>, "low")
          /\ next_id = [t \in LevelTypes |-> n + 2]
          /\ ohlcv = [s \in SeqToSet(BatchSymbols), tf \in {CandleTable(b)} |->
                        IF s = BatchSymbols[1]
                        THEN {Row(1, exchange[s, b][1])} ELSE {}]
  /\ last = NoOp
  /\ ins = NoInserts
  /\ det = [d \in Detectors |-> Idle]
  /\ batch = NoBatch
  /\ flt = [f \in Filterers |-> NoFilter]

\* lines 39-46: the job creates its DataFetcher, its DBManager and its
\* LevelFilter and enters the loop.
StartJobPass(f, timeframe) ==
  /\ batch = NoBatch
  /\ flt[f].pc = "idle"
  /\ batch' = [NoBatch EXCEPT !.job =
                 [NoJobPass EXCEPT !.pc = "loop", !.timeframe = timeframe,
                                   !.todo = BatchSymbols,
                                   !.check = CandleTable(timeframe)]]
  /\ UNCHANGED <<exchange, high_levels, low_levels, next_id, last, ins, ohlcv,
                 det, flt>>

\* line 48: the body of the loop starts for the next symbol of the list.
PassFetch(f) ==
  /\ batch.job.pc = "loop"
  /\ batch.job.todo # <<>>
  /\ JobFetch(f, Head(batch.job.todo), batch.job.timeframe)

\* lines 74-84: the body of the loop has ended for the symbol, by its last
\* statement (success += 1) or in the except clause (failed += 1), which
\* logs the error and goes on; the loop moves to the next symbol with the
\* same DBManager and the same LevelFilter, whose connection is as the
\* symbol left it.  After the last symbol the job closes its connections
\* and goes on to the check of the fakeouts.
PassNext(f) ==
  /\ batch.job.pc = "loop"
  /\ flt[f].pc \in {"done", "failed"}
  /\ batch' = [batch EXCEPT
       !.job.todo = Tail(@),
       !.job.pc = IF Tail(batch.job.todo) = <<>> THEN "fakeouts" ELSE "loop",
       !.job.success = IF flt[f].pc = "done" THEN @ + 1 ELSE @,
       !.job.failed = IF flt[f].pc = "done" THEN @ ELSE @ + 1,
       !.job.checked = Append(@, [symbol |-> flt[f].symbol, error |-> flt[f].error,
                                  failed_at |-> IF flt[f].pc = "done" THEN "none"
                                                ELSE flt[f].level_type])]
  /\ last' = Outcome(flt[f])
  /\ flt' = [flt EXCEPT ![f] = [NoFilter EXCEPT !.conn = flt[f].conn]]
  /\ UNCHANGED <<exchange, high_levels, low_levels, next_id, ins, ohlcv, det>>

\* One run of the job: the loop, statement by statement, then
\* check_all_symbols('1d') over the symbols; candles close on the exchange
\* meanwhile.
NextJobPass ==
  \/ \E symbol \in SeqToSet(BatchSymbols), timeframe \in Buckets, c \in BucketCandles :
       CloseCandle(symbol, timeframe, c)
  \/ \E timeframe \in Buckets : StartJobPass("f1", timeframe)
  \/ PassFetch("f1")
  \/ InsertCandles("f1")
  \/ InsertHigh("f1")
  \/ InsertLow("f1")
  \/ InsertFail("f1")
  \/ FilterRead("f1")
  \/ FilterDelete("f1")
  \/ FilterCommit("f1")
  \/ FilterFail("f1")
  \/ PassNext("f1")
  \/ JobCheckAll
  \/ BatchCheck("d1")
  \/ GetHighLevels("d1")
  \/ GetLowLevels("d1")
  \/ ReadFail("d1")
  \/ CheckAndMark("d1")
  \/ BatchNext("d1")

SpecJobPass == InitJobPass /\ [][NextJobPass]_vars

----------------------------------------------------------------------------
\* Properties of the level filter, checked under Spec.

Table(level_type) == IF level_type = "high" THEN high_levels ELSE low_levels

\* The process whose handler runs the properties look at, and its run.
Ran == flt["f1"]

\* The handler has returned and its process has not exited yet.
Returned == Ran.pc = "done"

\* The rows of the key the handler worked on.
KeyRows(level_type) == RowsOf(Table(level_type), Ran.symbol, Ran.timeframe)

\* The state is the one in which a handler with a filter call on level_type
\* has just returned.
Filtered(level_type) ==
  /\ Returned
  /\ Ran.op \in {"insert_job", "filter"}
  /\ Ran[level_type].called

\* Position i of the list a filter call read is a backward record: no more
\* recent level reaches its value.
IsRecord(levels, i, level_type) ==
  \A j \in (i + 1)..Len(levels) :
    IF level_type = "high" THEN levels[i].level > levels[j].level
                           ELSE levels[i].level < levels[j].level

RecordIds(levels, level_type) ==
  {levels[i].id : i \in {k \in 1..Len(levels) : IsRecord(levels, k, level_type)}}

\* C1: a filter call keeps exactly the backward records of the list it read:
\* a level survives iff it is the most recent one or its value is strictly
\* greater (high) / strictly smaller (low) than that of every more recent
\* level; so of two kept levels the older is strictly higher (high) / lower (low).
C1_FilterKeepsRecords ==
  \A t \in LevelTypes :
    Filtered(t) =>
      LET levels == Ran[t].levels
          kept == SeqToSet(Ran[t].keep_ids)
      IN /\ kept = RecordIds(levels, t)
         /\ {r.id : r \in KeyRows(t)} = RecordIds(levels, t)
         /\ \A i, j \in 1..Len(levels) :
              (i < j /\ levels[i].id \in kept /\ levels[j].id \in kept) =>
                IF t = "high" THEN levels[i].level > levels[j].level
                              ELSE levels[i].level < levels[j].level

C1_Witness ==
  \A t \in LevelTypes :
    /\ Filtered(t)
    /\ Len(Ran[t].levels) = 3
    /\ Ran[t].levels[1].timestamp < Ran[t].levels[2].timestamp
    /\ Ran[t].levels[2].timestamp < Ran[t].levels[3].timestamp
    /\ Ran[t].ret = <<2, 1>>
    /\ Ran[t].levels[1].id \in SeqToSet(Ran[t].keep_ids)

\* C2 as the specification words it: read from the most recent survivor to
\* the oldest, highs strictly decrease and lows strictly increase.
C2_DecreasingBackInTime ==
  \A t \in LevelTypes :
    Filtered(t) =>
      \A older, newer \in KeyRows(t) :
        older.timestamp < newer.timestamp =>
          IF t = "high" THEN older.level < newer.level
                        ELSE older.level > newer.level

\* C2, amended: right after a filter call the survivors of the key, read
\* from the most recent to the oldest, have strictly increasing highs and
\* strictly decreasing lows.
C2_MonotonicFrontier ==
  \A t \in LevelTypes :
    Filtered(t) =>
      \A older, newer \in KeyRows(t) :
        older.timestamp < newer.timestamp =>
          IF t = "high" THEN older.level > newer.level
                        ELSE older.level < newer.level

C2_Witness ==
  /\ Filtered("high") /\ Filtered("low")
  /\ Cardinality(KeyRows("high")) = 2
  /\ Cardinality(KeyRows("low")) = 2
  /\ Ran.high.ret[2] > 0
  /\ Ran.low.ret[2] > 0

\* C3: after a filter call on a key that held levels, the level with the
\* latest timestamp is still in the table, whatever its value: the row
\* itself when it is the only one at that timestamp, and a row with its
\* value and timestamp when a job had inserted it twice.
C3_NewestRetained ==
  \A t \in LevelTypes :
    (Filtered(t) /\ Ran[t].levels # <<>>) =>
      LET before == SeqToSet(Ran[t].levels)
          newest == {r \in before : \A o \in before : o.timestamp <= r.timestamp}
      IN /\ \A r \in newest :
              \E x \in KeyRows(t) : x.level = r.level /\ x.timestamp = r.timestamp
         /\ Cardinality(newest) = 1 => newest \subseteq KeyRows(t)

\* The newest high is the lowest level of the key and the newest low the
\* highest, and the call deleted an older level.
C3_Witness ==
  /\ Filtered("high") /\ Filtered("low")
  /\ Ran.high.ret[2] > 0
  /\ \E r \in KeyRows("high") :
       /\ \A o \in SeqToSet(Ran.high.levels) : o # r =>
            (o.timestamp < r.timestamp /\ o.level > r.level)
  /\ \E r \in KeyRows("low") :
       /\ \A o \in SeqToSet(Ran.low.levels) : o # r =>
            (o.timestamp < r.timestamp /\ o.level < r.level)

\* C4: a filter pass that follows a filter call on the same key with no
\* insert in between returns (kept, 0), with the kept count of the first
\* call, and leaves both tables as they were.
C4_FilterIdempotent ==
  (/\ Returned
   /\ Ran.op = "filter"
   /\ last.op \in {"insert_job", "filter"}
   /\ <<last.symbol, last.timeframe>> = <<Ran.symbol, Ran.timeframe>>)
  => \A t \in LevelTypes :
       /\ Ran[t].ret = <<last[t][1], 0>>
       /\ ~Ran[t].executed
       /\ KeyRows(t) = Ran[t].before
       /\ KeyRows(t) = last.rows[t]

\* The second of two filter calls, the first of which deleted levels.
C4_Witness ==
  /\ Returned
  /\ Ran.op = "filter"
  /\ last.op \in {"insert_job", "filter"}
  /\ last.high[2] > 0
  /\ last.low[2] > 0
  /\ Ran.high.ret = <<last.high[1], 0>>
  /\ Ran.high.ret[1] = 2

\* The levels of every candle inserted so far, as one batch in timestamp order.
Batch(level_type) ==
  LET tss == ins[level_type].tss
      n == Cardinality(tss)
      ts(i) == CHOOSE t \in tss : Cardinality({u \in tss : u < t}) = i - 1
  IN [i \in 1..n |-> [id |-> i, level |-> LevelOf(Ran.symbol, Ran.timeframe,
                                                   level_type, ts(i)),
                      timestamp |-> ts(i)]]

\* What one filter call on the whole batch keeps, as (level, timestamp) pairs.
BatchSurvivors(level_type) ==
  LET inserted == Batch(level_type)
      rows == {[id |-> inserted[i].id, symbol |-> Ran.symbol,
                timeframe |-> Ran.timeframe, level |-> inserted[i].level,
                timestamp |-> inserted[i].timestamp] : i \in 1..Len(inserted)}
      res == FilterResult(rows, Ran.symbol, Ran.timeframe, level_type,
                          [i \in 1..Len(inserted) |->
                             CHOOSE r \in rows : r.id = i])
  IN {<<r.level, r.timestamp>> : r \in res.table}

\* C5: when the levels went in in strictly increasing timestamp order, the
\* survivors after a filter call are those one filter call on the whole batch
\* leaves, however many filter calls ran between the inserts: after every
\* insert or only once at the end.
C5_BatchEqualsIncremental ==
  \A t \in LevelTypes :
    (Filtered(t) /\ ins[t].ordered) =>
      {<<r.level, r.timestamp>> : r \in KeyRows(t)} = BatchSurvivors(t)

\* The third insert and its filter call, which found nothing to delete: an
\* earlier filter call had already deleted the level the batch call drops.
C5_Witness ==
  /\ Returned
  /\ Ran.op = "insert_job"
  /\ \A t \in LevelTypes : ins[t].ordered /\ Cardinality(ins[t].tss) = 3
  /\ Ran.high.ret = <<2, 0>>
  /\ Cardinality(KeyRows("high")) = 2

----------------------------------------------------------------------------
\* Properties of the fakeout detector, checked under SpecOverlap (C6) and
\* SpecDetect (C7 to C10).

\* The newest row of a lower timeframe's table is annotated.
NewestAnnotated(symbol, timeframe) ==
  \E r \in ohlcv[symbol, timeframe] :
    /\ r.is_fakeout
    /\ \A o \in ohlcv[symbol, timeframe] : o.timestamp <= r.timestamp

\* The values of a list of levels that a candle wicks through and closes
\* back from, stated on the candle's fields.
QualifyingHighs(c, levels) ==
  {levels[i] : i \in {k \in 1..Len(levels) : c.high > levels[k] /\ c.close < levels[k]}}

QualifyingLows(c, levels) ==
  {levels[i] : i \in {k \in 1..Len(levels) : c.low < levels[k] /\ c.close > levels[k]}}

\* Detector d has finished a run that compared its candle with the levels.
Checked(d) == det[d].pc = "done" /\ det[d].outcome \in {"marked", "no_match"}

\* The row of the candle detector d worked on.
CandleRows(d) ==
  {r \in ohlcv[det[d].symbol, det[d].timeframe] :
     r.timestamp = det[d].candle.timestamp}

\* C6: with two detector runs overlapping on the same (symbol, timeframe) and
\* filter passes between their steps, an annotated row keeps its annotation:
\* no step changes the is_fakeout, fakeout_type or fakeout_level of a row
\* whose is_fakeout is already true.
C6_AnnotationWrittenOnce ==
  [][\A s \in Symbols, tf \in LowerTimeframes :
       \A r \in ohlcv[s, tf] : r.is_fakeout => r \in ohlcv'[s, tf]]_vars

\* C7: a detector run that starts when the newest candle of its
\* (symbol, timeframe) is annotated, and whose SELECT the store answers, ends
\* in that step as skipped: it returns False without raising and leaves the
\* candle table, hence fakeout_type and fakeout_level, as it was.
C7_AnnotatedCandleSkipped ==
  [][\A d \in Detectors :
       (/\ det[d].pc = "idle"
        /\ det'[d].pc # "idle"
        /\ det'[d].outcome # "read_error"
        /\ NewestAnnotated(det'[d].symbol, det'[d].timeframe))
       => /\ det'[d].pc = "done"
          /\ det'[d].outcome = "skipped"
          /\ det'[d].ret = FALSE
          /\ ~det'[d].raised
          /\ ohlcv' = ohlcv]_vars

\* A run was skipped on an annotated candle although the levels now in the
\* tables give a match other than the one recorded in the annotation.
C7_Witness ==
  \E d \in Detectors :
    /\ det[d].pc = "done"
    /\ det[d].outcome = "skipped"
    /\ det[d].ret = FALSE
    /\ \E r \in CandleRows(d) :
         LET now == CheckResult(det[d].candle,
                      FakeoutDetector_get_levels(high_levels, det[d].symbol,
                                                 BucketOf(det[d].timeframe)),
                      FakeoutDetector_get_levels(low_levels, det[d].symbol,
                                                 BucketOf(det[d].timeframe)))
         IN /\ r.is_fakeout
            /\ now # None
            /\ now # <<r.fakeout_type, r.fakeout_level>>

\* C8: a run records a level only if the candle passes it strictly on both
\* sides (high > v and close < v for a high level, low < v and close > v for
\* a low level), and it records nothing exactly when no level it read is
\* passed strictly; with prices scaled to integers, high 100 and close 99
\* against level 100 is no match, and high 105, low 99.5, close 99 against
\* level 100 is the match (high, 100).
C8_StrictInequalities ==
  /\ \A d \in Detectors :
       Checked(d) =>
         LET c == det[d].candle
             hs == QualifyingHighs(c, det[d].high_levels)
             ls == QualifyingLows(c, det[d].low_levels)
         IN /\ det[d].outcome = "no_match" <=> (hs = {} /\ ls = {})
            /\ det[d].outcome = "marked" =>
                 /\ det[d].result[1] = "high" => det[d].result[2] \in hs
                 /\ det[d].result[1] = "low" => det[d].result[2] \in ls
  /\ CheckResult([high |-> 100, low |-> 99, close |-> 99], <<100>>, <<>>) = None
  /\ CheckResult([high |-> 1050, low |-> 995, close |-> 990], <<1000>>, <<>>)
       = <<"high", 1000>>

\* The candle's high equals a high level with the close below it, its low
\* equals a low level with the close above it, and the run found no match.
C8_Witness ==
  \E d \in Detectors :
    /\ Checked(d)
    /\ det[d].outcome = "no_match"
    /\ \E i \in 1..Len(det[d].high_levels) :
         /\ det[d].candle.high = det[d].high_levels[i]
         /\ det[d].candle.close < det[d].high_levels[i]
    /\ \E i \in 1..Len(det[d].low_levels) :
         /\ det[d].candle.low = det[d].low_levels[i]
         /\ det[d].candle.close > det[d].low_levels[i]

\* C9: when a run marks a candle and some high level it read is passed, the
\* recorded type is high; a low is recorded only when no high level is
\* passed; the type is the one written to the candle's row.
C9_HighsBeforeLows ==
  \A d \in Detectors :
    (Checked(d) /\ det[d].outcome = "marked") =>
      LET c == det[d].candle
          hs == QualifyingHighs(c, det[d].high_levels)
          ls == QualifyingLows(c, det[d].low_levels)
      IN /\ hs # {} => det[d].result[1] = "high"
         /\ det[d].result[1] = "low" => (hs = {} /\ ls # {})
         /\ \A r \in CandleRows(d) :
              r.is_fakeout /\ r.fakeout_type = det[d].result[1]

\* The candle passes a high level and a low level, and high is recorded.
C9_Witness ==
  \E d \in Detectors :
    /\ Checked(d)
    /\ det[d].outcome = "marked"
    /\ QualifyingHighs(det[d].candle, det[d].high_levels) # {}
    /\ QualifyingLows(det[d].candle, det[d].low_levels) # {}
    /\ \E r \in CandleRows(d) : r.fakeout_type = "high"

\* C10: the level a run records is the lowest of the levels of the recorded
\* type that the candle passes, and that value is written to the row.
C10_LowestQualifyingLevel ==
  \A d \in Detectors :
    (Checked(d) /\ det[d].outcome = "marked") =>
      LET c == det[d].candle
          qs == IF det[d].result[1] = "high"
                THEN QualifyingHighs(c, det[d].high_levels)
                ELSE QualifyingLows(c, det[d].low_levels)
      IN /\ qs # {}
         /\ det[d].result[2] = Min(qs)
         /\ \A r \in CandleRows(d) : r.fakeout_level = Min(qs)

\* The candle passes two high levels of different values and the lower one
\* is in its row.
C10_Witness ==
  \E d \in Detectors :
    /\ Checked(d)
    /\ det[d].outcome = "marked"
    /\ Cardinality(QualifyingHighs(det[d].candle, det[d].high_levels)) >= 2
    /\ \E r \in CandleRows(d) :
         /\ r.fakeout_type = "high"
         /\ r.fakeout_level = Min(QualifyingHighs(det[d].candle, det[d].high_levels))
         /\ r.fakeout_level < Max(QualifyingHighs(det[d].candle, det[d].high_levels))

\* The rows of the table of detector d's run, after the step that ended it,
\* that hold the candle the run read.
RunRows(d, table) ==
  {r \in table[det'[d].symbol, det'[d].timeframe] :
     r.timestamp = det'[d].candle.timestamp}

\* C11: a run of check_hourly_fakeouts returns True exactly when it wrote an
\* annotation: then the candle it read was not annotated before the write and
\* carries the type and level of this run's match after it; a run whose
\* UPDATE failed, and a run on an annotated candle, do not return True and
\* leave the candle table as it was.
C11_TrueIffNewlyRecorded ==
  [][\A d \in Detectors :
       (det[d].pc # "done" /\ det'[d].pc = "done") =>
         /\ det'[d].ret = TRUE <=> ohlcv' # ohlcv
         /\ det'[d].ret = TRUE =>
              /\ ~det'[d].raised
              /\ ~det'[d].candle.is_fakeout
              /\ RunRows(d, ohlcv) # {}
              /\ \A r \in RunRows(d, ohlcv) : ~r.is_fakeout
              /\ \A r \in RunRows(d, ohlcv') :
                   /\ r.is_fakeout
                   /\ <<r.fakeout_type, r.fakeout_level>> = det'[d].result
         /\ (det'[d].raised \/ det'[d].candle.is_fakeout) =>
              (det'[d].ret = FALSE /\ ohlcv' = ohlcv)]_vars

\* A run returned True and its match is in the row of the newest candle,
\* which is the second row of the table.
C11_Witness ==
  \E d \in Detectors :
    /\ det[d].pc = "done"
    /\ det[d].ret = TRUE
    /\ Cardinality(ohlcv[det[d].symbol, det[d].timeframe]) = 2
    /\ \E r \in CandleRows(d) :
         /\ r.is_fakeout
         /\ <<r.fakeout_type, r.fakeout_level>> = det[d].result
         /\ \A o \in ohlcv[det[d].symbol, det[d].timeframe] :
              o.timestamp <= r.timestamp /\ (o # r => ~o.is_fakeout)

\* C12: a run that recorded a fakeout has called
\* TelegramNotifier.send_fakeout_alert exactly once, with the symbol, the
\* timeframe, the type, the level and the candle of its match.
C12_AlertOnRecord ==
  \A d \in Detectors :
    (det[d].pc = "done" /\ det[d].outcome = "marked") =>
      det[d].alerts = <<[symbol |-> det[d].symbol, timeframe |-> det[d].timeframe,
                         fakeout_type |-> det[d].result[1],
                         level |-> det[d].result[2],
                         candle |-> det[d].candle]>>

\* C14: a run that starts when the table of its (symbol, timeframe) holds no
\* candle, and whose SELECT the store answers, ends in that step, before any
\* level is read: it returns False
\* without raising, leaves the candle table and the level tables as they
\* were, and logs the outcome as a warning, whereas a run that found no match
\* logs at another level.
C14_NoDataReported ==
  [][\A d \in Detectors :
       /\ (/\ det[d].pc = "idle"
           /\ det'[d].pc # "idle"
           /\ det'[d].outcome # "read_error"
           /\ ohlcv[det'[d].symbol, det'[d].timeframe] = {})
          => /\ det'[d].pc = "done"
             /\ det'[d].outcome = "no_data"
             /\ det'[d].ret = FALSE
             /\ ~det'[d].raised
             /\ det'[d].log = "warning"
             /\ det'[d].high_levels = <<>> /\ det'[d].low_levels = <<>>
             /\ ohlcv' = ohlcv
             /\ high_levels' = high_levels /\ low_levels' = low_levels
       /\ (det[d].pc # "done" /\ det'[d].pc = "done" /\ det'[d].outcome = "no_match")
          => (det'[d].ret = FALSE /\ det'[d].log # "warning")]_vars

\* A run ended with no data while the bucket holds levels it could have read.
C14_Witness ==
  \E d \in Detectors :
    /\ det[d].pc = "done"
    /\ det[d].outcome = "no_data"
    /\ det[d].log = "warning"
    /\ ohlcv[det[d].symbol, det[d].timeframe] = {}
    /\ RowsOf(high_levels, det[d].symbol, BucketOf(det[d].timeframe)) # {}
    /\ RowsOf(low_levels, det[d].symbol, BucketOf(det[d].timeframe)) # {}

----------------------------------------------------------------------------
\* Properties of the filter in steps, checked under SpecConcurrent (C15) and
\* SpecSteps (C16).

\* Process f has read the levels of a key and its DELETE is still to come.
BetweenReadAndDelete(f) == flt[f].pc = "delete"

\* C15: no two filter executions for the same (symbol, bucket, type) are at
\* the same time between their read of the levels and their DELETE.
C15_FilterSerialized ==
  \A f, g \in Filterers :
    (f # g /\ BetweenReadAndDelete(f) /\ BetweenReadAndDelete(g)) =>
      <<flt[f].symbol, flt[f].timeframe, flt[f].level_type>>
        # <<flt[g].symbol, flt[g].timeframe, flt[g].level_type>>

----------------------------------------------------------------------------
\* Properties of the batch pass, checked under SpecBatch.

\* The bucket mapping of the specification.
BucketMap(timeframe) ==
  CASE timeframe \in {"5m", "1h"} -> "daily"
    [] timeframe = "4h" -> "weekly"
    [] timeframe = "1d" -> "monthly"

\* C13: a pass of check_all_symbols can be started for each of 5m, 1h, 4h and
\* 1d without an invalid-timeframe error, and a run of the pass that has read
\* its levels holds exactly the levels of the bucket mapped to its timeframe:
\* daily for 5m and 1h, weekly for 4h, monthly for 1d.
C13_BucketMapping ==
  /\ batch.timeframe \in BatchTimeframes => batch.error # "ValueError"
  /\ \A d \in Detectors :
       det[d].pc = "check" =>
         /\ det[d].high_levels = <<BucketLevel(BucketMap(det[d].timeframe), "high")>>
         /\ det[d].low_levels = <<BucketLevel(BucketMap(det[d].timeframe), "low")>>

\* C20: when a pass over the symbols has ended, every symbol of the list was
\* checked, whatever the check of another symbol gave (match, no match, no
\* data or a store error), and what was recorded for it is what its own
\* candle and levels give.
C20_SymbolsIndependent ==
  (batch.pc \in {"done", "raised"} /\ batch.timeframe \in MethodMap) =>
    \A i \in 1..Len(BatchSymbols) :
      \E j \in 1..Len(batch.checked) :
        /\ batch.checked[j].symbol = BatchSymbols[i]
        /\ batch.checked[j].outcome \in ({"no_data", "skipped", "no_match", "marked"} \cup Raising)

\* The lists get_levels would return for a key after a filter call on it,
\* one for each order in which the filter may read the table.
FilteredLevels(level_type, symbol, timeframe) ==
  {FakeoutDetector_get_levels(
     FilterResult(Table(level_type), symbol, timeframe, level_type, levels).table,
     symbol, timeframe) :
   levels \in LevelFilter_get_levels(Table(level_type), symbol, timeframe)}

\* The lists run d holds are the levels now in the tables.
ReadsCurrentLevels(d) ==
  /\ det[d].high_levels = FakeoutDetector_get_levels(high_levels, det[d].symbol,
                                                     BucketOf(det[d].timeframe))
  /\ det[d].low_levels = FakeoutDetector_get_levels(low_levels, det[d].symbol,
                                                    BucketOf(det[d].timeframe))

\* C25: when a check against the filtered levels would match, the check
\* against the levels as they are, filtered or not, matches too (unless the
\* UPDATE fails, the fakeout is recorded); and a check changes nothing but
\* the annotation of the candle it read: no level, no other candle, no
\* price of that candle.
C25_UnfilteredNeverSuppresses ==
  [][\A d \in Detectors :
       (det[d].pc = "check" /\ det'[d].pc = "done") =>
         LET candle == det[d].candle
             bucket == BucketOf(det[d].timeframe)
             rows == ohlcv[det[d].symbol, det[d].timeframe]
             rows2 == ohlcv'[det[d].symbol, det[d].timeframe]
         IN /\ ReadsCurrentLevels(d) =>
                 \A fh \in FilteredLevels("high", det[d].symbol, bucket),
                    fl \in FilteredLevels("low", det[d].symbol, bucket) :
                   CheckResult(candle, fh, fl) # None =>
                     /\ det'[d].outcome \in {"marked", "error", "connection_lost"}
                     /\ det'[d].outcome = "marked" => det'[d].result # None
            /\ high_levels' = high_levels /\ low_levels' = low_levels
            /\ \A r \in rows : r.timestamp # candle.timestamp => r \in rows2
            /\ {[timestamp |-> r.timestamp, high |-> r.high, low |-> r.low,
                  close |-> r.close] : r \in rows}
               = {[timestamp |-> r.timestamp, high |-> r.high, low |-> r.low,
                   close |-> r.close] : r \in rows2}]_vars

\* A run on unfiltered levels recorded a fakeout of another level than the
\* one a run on the filtered levels would record.
C25_Witness ==
  \E d \in Detectors :
    /\ det[d].pc = "done"
    /\ det[d].outcome = "marked"
    /\ ReadsCurrentLevels(d)
    /\ \E fh \in FilteredLevels("high", det[d].symbol, BucketOf(det[d].timeframe)),
          fl \in FilteredLevels("low", det[d].symbol, BucketOf(det[d].timeframe)) :
         /\ fh # det[d].high_levels
         /\ CheckResult(det[d].candle, fh, fl) # None
         /\ CheckResult(det[d].candle, fh, fl) # det[d].result

----------------------------------------------------------------------------
\* The DELETE of a filter call, checked under Spec.

\* The ids of the list a filter call read that are not backward records.
ToDelete(levels, level_type) ==
  {levels[i].id : i \in 1..Len(levels)} \ RecordIds(levels, level_type)

\* C17: a filter call with nothing to delete executes no DELETE and leaves
\* the table with exactly the rows it read (a filter pass leaves it as it
\* was); a DELETE that is executed carries a non-empty keep-id list, and the
\* key still has levels after it.
C17_NoMalformedDelete ==
  \A t \in LevelTypes :
    Filtered(t) =>
      LET call == Ran[t]
          rows == KeyRows(t)
      IN /\ ToDelete(call.levels, t) = {} =>
              /\ ~call.executed
              /\ rows = SeqToSet(call.levels)
              /\ rows = call.before
         /\ call.executed =>
              /\ call.keep_ids # <<>>
              /\ rows # {}
              /\ rows = {r \in SeqToSet(call.levels) :
                           r.id \in SeqToSet(call.keep_ids)}

\* A filter pass on a key with two levels and nothing to delete ran without
\* a DELETE, right after an insert job whose filter call deleted a level.
C17_Witness ==
  /\ Returned
  /\ Ran.op = "filter"
  /\ last.op = "insert_job"
  /\ last.high[2] = 1
  /\ Len(Ran.high.levels) = 2
  /\ ToDelete(Ran.high.levels, "high") = {}
  /\ ~Ran.high.executed
  /\ KeyRows("high") = SeqToSet(Ran.high.levels)

\* C24: a filter call on a key without levels returns (0, 0); otherwise
\* kept + deleted is the number of levels the key held when the call
\* started, kept is the number it holds afterwards, and kept >= 1.
C24_CountsAddUp ==
  \A t \in LevelTypes :
    Filtered(t) =>
      LET ret == Ran[t].ret
          before == Cardinality(Ran[t].before)
          after == Cardinality(KeyRows(t))
      IN /\ before = 0 => ret = <<0, 0>>
         /\ ret[1] + ret[2] = before
         /\ ret[1] = after
         /\ before > 0 => ret[1] >= 1

\* A filter pass over three levels kept two and deleted one.
C24_Witness ==
  /\ Returned
  /\ Ran.op = "filter"
  /\ Len(Ran.high.levels) = 3
  /\ Ran.high.ret = <<2, 1>>
  /\ Cardinality(KeyRows("high")) = 2

\* The (value, timestamp) pairs of the levels of a key in a table.
Frontier(table, symbol, timeframe) ==
  {<<r.level, r.timestamp>> : r \in RowsOf(table, symbol, timeframe)}

\* C26: an insert job that runs again for the candle the previous job
\* processed leaves the levels of the key with the same (value, timestamp)
\* pairs, one row for each, as the first run left them.
C26_JobReinvocationKeepsFrontier ==
  (/\ Returned
   /\ Ran.op = "insert_job"
   /\ last.op = "insert_job"
   /\ <<last.symbol, last.timeframe>> = <<Ran.symbol, Ran.timeframe>>
   /\ last.record = Ran.tss)
  => \A t \in LevelTypes :
       LET first == last.rows[t]
           second == KeyRows(t)
       IN /\ Frontier(second, Ran.symbol, Ran.timeframe)
             = Frontier(first, Ran.symbol, Ran.timeframe)
          /\ Cardinality(second) = Cardinality(first)
          /\ Cardinality(second)
             = Cardinality(Frontier(second, Ran.symbol, Ran.timeframe))

\* The second of two insert jobs for one candle read three levels, the
\* repeated one among them, and left the two of the first run.
C26_Witness ==
  /\ Returned
  /\ Ran.op = "insert_job"
  /\ last.op = "insert_job"
  /\ last.record = Ran.tss
  /\ last.high = <<2, 0>>
  /\ Len(Ran.high.levels) = 3
  /\ Ran.high.ret = <<2, 1>>
  /\ Cardinality(Frontier(high_levels, Ran.symbol, Ran.timeframe)) = 2

----------------------------------------------------------------------------
\* The filter on given lists, checked under SpecExamples.

\* The values of a list of rows, in its order.
Values(rows) == [i \in 1..Len(rows) |-> rows[i].level]

\* The rows of the list a call read whose ids it kept, in the order read.
KeptInOrder(call) ==
  SelectSeq(call.levels, LAMBDA r : r.id \in SeqToSet(call.keep_ids))

\* C18: a filter call that reads the highs 3,9,4,7,2,3,6,2,4 (oldest first)
\* keeps 9,7,6,4 in that order and returns (4, 5); one that reads the lows
\* 9,3,6,4,8,7,5,8,6 keeps 3,4,5,6 and returns (4, 5); the table holds
\* exactly the kept levels afterwards.
C18_WorkedExamples ==
  \A t \in LevelTypes :
    LET example == IF t = "high" THEN ExampleHighs ELSE ExampleLows
        expected == IF t = "high" THEN <<9, 7, 6, 4>> ELSE <<3, 4, 5, 6>>
    IN (Filtered(t) /\ Values(Ran[t].levels) = example) =>
         /\ Values(KeptInOrder(Ran[t])) = expected
         /\ Ran[t].ret = <<4, 5>>
         /\ \A rows \in OrderByTimestamp(KeyRows(t)) : Values(rows) = expected

\* A filter pass ran over both examples.
C18_Witness ==
  /\ Returned
  /\ Ran.op = "filter"
  /\ Values(Ran.high.levels) = ExampleHighs
  /\ Values(Ran.low.levels) = ExampleLows
  /\ Ran.high.ret = <<4, 5>>
  /\ Ran.low.ret = <<4, 5>>
  /\ Cardinality(KeyRows("high")) = 4
  /\ Cardinality(KeyRows("low")) = 4

\* The levels of `levels` more recent than position i that the call kept.
KeptAfter(call, i) ==
  {call.levels[j].level : j \in {k \in (i + 1)..Len(call.levels) :
                                  call.levels[k].id \in SeqToSet(call.keep_ids)}}

\* C19: after a filter call an older level equal to the extremum of the more
\* recent kept levels is gone, for highs and for lows; no two surviving
\* levels of the key have equal values; and of the list 5,5 only the newest
\* level survives, the call returning (1, 1).
C19_EqualValuesDropped ==
  \A t \in LevelTypes :
    Filtered(t) =>
      LET call == Ran[t]
          levels == call.levels
      IN /\ \A i \in 1..Len(levels) :
              (/\ KeptAfter(call, i) # {}
               /\ levels[i].level = IF t = "high" THEN Max(KeptAfter(call, i))
                                                  ELSE Min(KeptAfter(call, i)))
              => /\ levels[i].id \notin SeqToSet(call.keep_ids)
                 /\ levels[i] \notin KeyRows(t)
         /\ \A r, o \in KeyRows(t) : r.level = o.level => r = o
         /\ Values(levels) = <<5, 5>> =>
              /\ call.ret = <<1, 1>>
              /\ KeyRows(t) = {levels[2]}

\* A filter pass ran over the list 5,5 in both tables and left the newest level.
C19_Witness ==
  /\ Returned
  /\ Ran.op = "filter"
  /\ \A t \in LevelTypes :
       /\ Values(Ran[t].levels) = <<5, 5>>
       /\ Ran[t].ret = <<1, 1>>
       /\ KeyRows(t) = {Ran[t].levels[2]}

----------------------------------------------------------------------------
\* The candle upsert, checked under SpecUpsert.

\* The rows of the table the last candle job wrote to.
UpsertRows == ohlcv[last.symbol, last.timeframe]

\* C21: the upsert of a candle job's loop leaves every stored candle as it
\* was, values and fakeout annotation included; the table holds one candle
\* with the upserted timestamp afterwards; and when that timestamp was
\* already stored the table is unchanged.
C21_UpsertIgnoresDuplicate ==
  [][(batch.job.pc = "candles" /\ batch'.job.todo # batch.job.todo
        /\ last'.op = "upsert") =>
       LET key == <<last'.symbol, last'.timeframe>>
           ts == last'.record[1]
       IN /\ \A r \in ohlcv[key] : r \in ohlcv'[key]
          /\ Cardinality({r \in ohlcv'[key] : r.timestamp = ts}) = 1
          /\ (\E r \in ohlcv[key] : r.timestamp = ts) => ohlcv' = ohlcv]_vars

\* A candle job upserted a candle whose timestamp holds a recorded fakeout
\* with other values; the stored candle and its annotation are still there.
C21_Witness ==
  /\ last.op = "upsert"
  /\ \E r \in UpsertRows :
       /\ r.timestamp = last.record[1]
       /\ r.is_fakeout
       /\ r.fakeout_type # "NULL"
       /\ [high |-> r.high, low |-> r.low, close |-> r.close] # last.record[2]
  /\ Cardinality({r \in UpsertRows : r.timestamp = last.record[1]}) = 1

\* The table of a type after the step.
LevelsTableAfter(level_type) ==
  IF level_type = "high" THEN high_levels' ELSE low_levels'

\* C28: the DELETE of a filter call removes only levels the call has read;
\* a level another process inserted for the key after the read is in the
\* table when the call goes on.
C28_DeletesOnlyLevelsRead ==
  [][\A f \in Filterers :
       (flt[f].pc = "commit" /\ flt'[f].pc # "commit") =>
         (LevelsTable(flt[f].level_type) \ LevelsTableAfter(flt[f].level_type))
           \subseteq SeqToSet(flt[f].levels)]_vars

----------------------------------------------------------------------------
\* A filter call that fails, checked under Spec.

\* C16: when a filter_highs or filter_lows call fails, at its read, at its
\* DELETE or at its commit, the levels of its (symbol, bucket, type) are
\* exactly the rows present when the call started and no table has changed;
\* no statement of a call before its commit changes a table; and the commit
\* that succeeds leaves exactly the rows of the key whose id is in keep_ids:
\* the deletion is applied as a whole or not at all.
C16_FailedFilterLeavesKey ==
  [][\A f \in Filterers :
       (flt'[f] # flt[f] /\ flt[f].pc \in {"read", "delete", "commit"}) =>
         LET t == flt[f].level_type
             after == RowsOf(LevelsTableAfter(t), flt[f].symbol, flt[f].timeframe)
             same == high_levels' = high_levels /\ low_levels' = low_levels
         IN /\ flt'[f].pc = "failed" => (same /\ after = flt[f].before)
            /\ flt[f].pc # "commit" => same
            /\ (flt[f].pc = "commit" /\ flt'[f].pc # "failed") =>
                 after = {r \in flt[f].before : r.id \in SeqToSet(flt[f].keep_ids)}]_vars

\* filter_lows failed at its commit with a deletion waiting in the
\* transaction, after filter_highs of the same call had deleted and
\* committed; every low the call read is in the table.
C16_Witness ==
  \E f \in Filterers :
    /\ flt[f].pc = "failed"
    /\ flt[f].level_type = "low"
    /\ flt[f].raised_at = "commit"
    /\ flt[f].ret[2] > 0
    /\ Cardinality(flt[f].before) = Len(flt[f].levels)
    /\ RowsOf(low_levels, flt[f].symbol, flt[f].timeframe) = flt[f].before
    /\ Cardinality(RowsOf(high_levels, flt[f].symbol, flt[f].timeframe))
         < Cardinality(flt[f].before)

----------------------------------------------------------------------------
\* The levels of a closed candle, checked under SpecSteps.

\* C22: the store holds at most one high level and one low level with the
\* timestamp of a closed candle, each with the candle's high / low as its
\* value, also after the insert job ran again for a candle already stored.
C22_OneLevelPerCandle ==
  \A t \in LevelTypes, s \in Symbols, b \in Buckets :
    \A ts \in 1..Len(exchange[s, b]) :
      LET rows == {r \in RowsOf(LevelsTable(t), s, b) : r.timestamp = ts}
      IN /\ Cardinality(rows) <= 1
         /\ \A r \in rows : r.level = LevelOf(s, b, t, ts)

----------------------------------------------------------------------------
\* Alert delivery, checked under SpecAlert.

\* C23: a send_fakeout_alert call, delivered or not, leaves every candle
\* and its annotation as they were, sends once, and returns to its caller
\* without raising; a failed delivery is logged as an error.
C23_AlertFailureContained ==
  [][(last'.op = "alert" /\ det' = det) =>
       /\ ohlcv' = ohlcv
       /\ \E r \in ohlcv'[last'.symbol, last'.timeframe] :
            r.timestamp = last'.record[1] /\ r.is_fakeout
       /\ last'.record[3] = 1
       /\ ~last'.record[4]
       /\ ~last'.record[2] => last'.record[5] = "error"]_vars

\* The delivery of an alert for a recorded fakeout failed, and the
\* annotation is set.
C23_Witness ==
  /\ last.op = "alert"
  /\ ~last.record[2]
  /\ ~last.record[4]
  /\ \E r \in ohlcv[last.symbol, last.timeframe] :
       r.timestamp = last.record[1] /\ r.is_fakeout /\ r.fakeout_type # "NULL"

----------------------------------------------------------------------------
\* The filter of the test script, checked under SpecTestFilter.

\* C27: the filter_highs of test_level_filter.py keeps the levels that the
\* filter_highs of level_filter.py keeps for the list it read, 9,7,6,4 for
\* the highs 3,9,4,7,2,3,6,2,4.
C27_TestFilterAgrees ==
  (Returned /\ Ran.op = "test_filter" /\ Ran.high.levels # <<>>) =>
    /\ SeqToSet(Ran.high.keep_ids) = SeqToSet(HighKeepIds(Ran.high.levels))
    /\ Values(Ran.high.levels) = ExampleHighs =>
         Values(KeptInOrder(Ran.high)) = <<9, 7, 6, 4>>

----------------------------------------------------------------------------
\* The frame of a filter call and of a detector run, checked under SpecKeys.

\* The rows of a table outside a key.
OtherKeys(table, symbol, timeframe) == table \ RowsOf(table, symbol, timeframe)

\* C29: the DELETE of filter_highs / filter_lows removes rows of its key in
\* its table only: the rows of every other symbol and bucket, the table of
\* the other type and all candles stay; the other steps of a filter call
\* change no table; and a detector run neither inserts nor deletes a level.
C29_FilterFrame ==
  [][/\ \A f \in Filterers :
          flt'[f] # flt[f] =>
            LET t == flt[f].level_type
                o == IF t = "high" THEN "low" ELSE "high"
            IN /\ ohlcv' = ohlcv
               /\ IF flt[f].pc = "commit"
                  THEN /\ LevelsTableAfter(o) = LevelsTable(o)
                       /\ LevelsTableAfter(t) \subseteq LevelsTable(t)
                       /\ OtherKeys(LevelsTableAfter(t), flt[f].symbol, flt[f].timeframe)
                          = OtherKeys(LevelsTable(t), flt[f].symbol, flt[f].timeframe)
                  ELSE high_levels' = high_levels /\ low_levels' = low_levels
     /\ \A d \in Detectors :
          det'[d] # det[d] => high_levels' = high_levels /\ low_levels' = low_levels]_vars

\* A filter call deleted a high level of btcusdt daily while the other
\* keys hold both their levels, after a detector run recorded a fakeout.
C29_Witness ==
  /\ flt["f1"].symbol = "btcusdt" /\ flt["f1"].timeframe = "daily"
  /\ flt["f1"].pc = "read" /\ flt["f1"].level_type = "low"
  /\ Cardinality(RowsOf(high_levels, "btcusdt", "daily")) = 1
  /\ \A s \in KeySymbols, b \in KeyBuckets :
       <<s, b>> # <<"btcusdt", "daily">> =>
         Cardinality(RowsOf(high_levels, s, b)) = 2
  /\ Cardinality(low_levels) = 8
  /\ \E r \in ohlcv["btcusdt", "1h"] : r.is_fakeout

----------------------------------------------------------------------------
\* A store error in a job pass, checked under SpecJobPass.

\* C30: after a symbol of a pass failed with a store error in its filter
\* call, the filter call of every later symbol finds a usable connection.
C30_LaterSymbolsFiltered ==
  \A j \in 1..Len(batch.job.checked) :
    batch.job.checked[j].error # "ConnectionUnusable"

====

